---- MODULE Spec2Model ----
(***************************************************************************)
(* Trade proposal lifecycle of the AI agent group: the MultisigWallet      *)
(* ledger (propose, vote, mark processed) and the AgentGroup orchestrator  *)
(* (propose_trade, execute_approved_transactions), from src/ai_agent.py.   *)
(*                                                                         *)
(* Amounts are Python floats in the source.  They are modelled as exact    *)
(* integers counted in units of 1e-18, so that the two thresholds of the   *)
(* source, 1e-18 and 1e-12, are the integers 1 and 1000000.                *)
(***************************************************************************)
EXTENDS Integers, Sequences, FiniteSets, TLC

VARIABLES
    pending_transactions,   \* MultisigWallet.pending_transactions (the ledger)
    required_signatures,    \* MultisigWallet.required_signatures
    now,                    \* int(time.time()), in seconds
    simulated_fund_usd,     \* AgentGroup.simulated_fund_usd
    holdings,               \* CryptoPortfolio.holdings (0 = key absent)
    context,                \* the two AgentGroup.context entries the batch rewrites
    rpc_urls_configured,    \* whether evm_config is non-empty and has rpc_urls
    pc,                     \* "idle", or "batch" inside execute_approved_transactions
    approved_tx_wrappers,   \* the batch's snapshot: ledger positions, in order
    batch_pos,              \* position of the for loop in the snapshot
    active_web3_instance,   \* _active_web3_instance
    active_wallet_account,  \* _active_wallet_account
    active_network_name,    \* _active_network_name
    exec_count,             \* history: executor invocations per ledger position
    last_error,             \* history: the exception the last operation raised
    allowance,              \* chain: the router's ERC20 allowance, in raw units
    trade_call,             \* history: the last call of evm_utils.execute_trade
    swap_call,              \* history: the last call of execute_jupiter_swap
    submitted_requests,     \* history: the requests posted to Jupiter /execute
    worker,                 \* the thread asyncio.to_thread runs execute_trade on
    iteration,              \* history: the last on-chain iteration of the batch loop
    last_call,              \* history: the last constructor / prune / save / load call
    saved_state,            \* the file discussion_state.json
    fetch_call,             \* history: the last call of fetch_jupiter_quote
    solana_config,          \* solana_utils.SOLANA_CONFIG
    load_calls              \* history: the calls of _load_solana_config

vars == <<pending_transactions, required_signatures, now, simulated_fund_usd,
          holdings, context, rpc_urls_configured, pc, approved_tx_wrappers,
          batch_pos, active_web3_instance, active_wallet_account,
          active_network_name, exec_count, last_error, allowance, trade_call,
          swap_call, submitted_requests, worker, iteration, last_call,
          saved_state, fetch_call, solana_config, load_calls>>

ledger_vars == <<pending_transactions, required_signatures, now,
                 simulated_fund_usd, holdings, context, rpc_urls_configured, pc,
                 approved_tx_wrappers, batch_pos, active_web3_instance,
                 active_wallet_account, active_network_name, exec_count,
                 last_error>>

chain_vars == <<allowance, trade_call, swap_call, submitted_requests, fetch_call,
                solana_config, load_calls>>

exec_vars == <<allowance, trade_call, swap_call, submitted_requests, worker,
               iteration, last_call, saved_state, fetch_call, solana_config,
               load_calls>>

batch_vars == <<pc, approved_tx_wrappers, batch_pos, active_web3_instance,
                active_wallet_account, active_network_name>>

fund_vars == <<simulated_fund_usd, holdings, context>>

(***************************************************************************)
(* Bounds of the model.                                                    *)
(***************************************************************************)
NumAgents == 2          \* len(self.agents)
MaxProposals == 2       \* cap on the ledger length
MaxVoteProposals == 1   \* cap on the ledger length where only votes are cast
MaxTime == 1            \* cap on the clock
MaxExecCount == 2       \* cap on the executions of one proposal
InitialSimulatedBtc == 2000000  \* initial_simulated_btc_amount (2e-12)

None == "None"

\* 1e-18, the amount threshold of propose_trade, in units of 1e-18.
AmountEpsilon == 1
\* 1e-12, the removal threshold of update_holding, in units of 1e-18.
DustThreshold == 1000000
\* random.randint(1000, 9999): the lower end; the model draws from a short
\* range above it.
RandLow == 1000
RandSuffixes == {RandLow, RandLow + 1}

AgentNames == 1..NumAgents

Min(S) == CHOOSE x \in S : \A y \in S : x <= y

Abs(x) == IF x < 0 THEN -x ELSE x

(***************************************************************************)
(* Text: str.strip, str.upper, str.startswith, str.splitlines on vote      *)
(* texts, which are sequences of characters.                               *)
(***************************************************************************)
Whitespace == {" ", "\n"}

UpperChar(c) ==
    CASE c = "a" -> "A" [] c = "p" -> "P" [] c = "r" -> "R" [] c = "o" -> "O"
      [] c = "v" -> "V" [] c = "e" -> "E" [] c = "j" -> "J" [] c = "c" -> "C"
      [] c = "t" -> "T" [] c = "i" -> "I" [] c = "n" -> "N"
      [] OTHER -> c

Upper(s) == [k \in 1..Len(s) |-> UpperChar(s[k])]

RECURSIVE LStrip(_)
LStrip(s) ==
    IF s # <<>> /\ Head(s) \in Whitespace THEN LStrip(Tail(s)) ELSE s

RECURSIVE RStrip(_)
RStrip(s) ==
    IF s # <<>> /\ s[Len(s)] \in Whitespace
    THEN RStrip(SubSeq(s, 1, Len(s) - 1))
    ELSE s

Strip(s) == RStrip(LStrip(s))

StartsWith(s, prefix) ==
    /\ Len(s) >= Len(prefix)
    /\ SubSeq(s, 1, Len(prefix)) = prefix

\* vote_response.splitlines()[0] raises IndexError exactly for the empty text.
FirstLineRaises(s) == Len(s) = 0

APPROVE == <<"A", "P", "P", "R", "O", "V", "E">>
REJECT == <<"R", "E", "J", "E", "C", "T">>

IsApprove(vote) == StartsWith(Upper(Strip(vote)), APPROVE)
IsReject(vote) == StartsWith(Upper(Strip(vote)), REJECT)

(***************************************************************************)
(* Trade strings: the list str.split() gives, one string per token.        *)
(* str.upper and str.lower on the tokens of the model's alphabet, and      *)
(* float() on its amount literals.                                         *)
(***************************************************************************)
TokenUpper(tok) ==
    CASE tok = "weth" -> "WETH" [] tok = "usdc" -> "USDC"
      [] tok = "buy" -> "BUY" [] tok = "Sell" -> "SELL"
      [] tok = "hold" -> "HOLD" [] tok = "btc" -> "BTC"
      [] OTHER -> tok

TokenLower(tok) ==
    CASE tok = "Sepolia" -> "sepolia" [] tok = "POLYGON" -> "polygon"
      [] tok = "Uniswap_V2" -> "uniswap_v2"
      [] OTHER -> tok

\* float(s): the value in units of 1e-18, or ValueError.
ParseFloat(s) ==
    CASE s = "2e-12" -> [ok |-> TRUE, value |-> 2000000]
      [] s = "3e-12" -> [ok |-> TRUE, value |-> 3000000]
      [] s = "1.5e-12" -> [ok |-> TRUE, value |-> 1500000]
      [] s = "1e-18" -> [ok |-> TRUE, value |-> 1]
      [] s = "0" -> [ok |-> TRUE, value |-> 0]
      [] s = "-2e-12" -> [ok |-> TRUE, value |-> -2000000]
      [] OTHER -> [ok |-> FALSE, value |-> 0]

(***************************************************************************)
(* MultisigWallet                                                          *)
(***************************************************************************)
\* f"tx_{int(time.time())}_{random.randint(1000,9999)}"
MakeTxId(t, r) == <<"tx", t, r>>

ProposeTransaction(pt, transaction_data, tx_id) ==
    Append(pt, [id |-> tx_id,
                transaction |-> transaction_data,
                votes |-> <<>>,
                status |-> "pending",
                tx_hash |-> None,
                error_message |-> None])

\* AIAgent.vote_on_transaction: the generated text, or the REJECT text when
\* generation raised.  generated is [raised, text].
RejectOnError == <<"R", "E", "J", "E", "C", "T", " ", "-", " ", "E", "r", "r", "o", "r">>

\* A vote_on_transaction that answers a failure with the text generate_response
\* answers it with (line 123).
VoteOnTransactionErrorText(generated) ==
    IF generated.raised THEN <<"E", "r", "r", "o", "r", ":">> ELSE generated.text

VoteOnTransaction(generated) ==
    IF generated.raised THEN RejectOnError ELSE generated.text

Approvals(votes) == Cardinality({k \in 1..Len(votes) : IsApprove(votes[k].vote)})
Rejects(votes) == Cardinality({k \in 1..Len(votes) : IsReject(votes[k].vote)})

\* The rule with a strict comparison of the approvals with the threshold.
DecideStatusStrict(votes, status) ==
    IF Approvals(votes) > required_signatures THEN "approved"
    ELSE IF \/ Rejects(votes) > NumAgents - required_signatures
            \/ Len(votes) = NumAgents
         THEN "rejected"
         ELSE status

\* Lines 233-244: the status a pending proposal gets from its votes.
DecideStatus(votes, status) ==
    IF Approvals(votes) >= required_signatures THEN "approved"
    ELSE IF \/ Rejects(votes) > NumAgents - required_signatures
            \/ Len(votes) = NumAgents
         THEN "rejected"
         ELSE status

\* A round that asks every agent, whether or not it has voted before.
RECURSIVE AgentsVoteAgain(_, _, _, _)
AgentsVoteAgain(votes, voted_agent_names, a, generated) ==
    IF a > NumAgents THEN [votes |-> votes, raised |-> FALSE]
    ELSE LET vote_response == VoteOnTransaction(generated[a])
             appended == Append(votes, [agent |-> a, vote |-> vote_response])
         IN  IF FirstLineRaises(vote_response)
             THEN [votes |-> appended, raised |-> TRUE]
             ELSE AgentsVoteAgain(appended, voted_agent_names, a + 1, generated)

\* Lines 226-231: the agents that have not voted yet vote, in order; an empty
\* vote text raises IndexError right after its vote was appended.
RECURSIVE AgentsVote(_, _, _, _)
AgentsVote(votes, voted_agent_names, a, generated) ==
    IF a > NumAgents THEN [votes |-> votes, raised |-> FALSE]
    ELSE IF a \in voted_agent_names
         THEN AgentsVote(votes, voted_agent_names, a + 1, generated)
         ELSE LET vote_response == VoteOnTransaction(generated[a])
                  appended == Append(votes, [agent |-> a, vote |-> vote_response])
              IN  IF FirstLineRaises(vote_response)
                  THEN [votes |-> appended, raised |-> TRUE]
                  ELSE AgentsVote(appended, voted_agent_names, a + 1, generated)

\* Lines 223-244: the round over the ledger from position k on.
RECURSIVE VoteFrom(_, _, _)
VoteFrom(pt, k, generated) ==
    IF k > Len(pt) THEN [pt |-> pt, raised |-> FALSE]
    ELSE IF pt[k].status # "pending" THEN VoteFrom(pt, k + 1, generated)
    ELSE LET voted_agent_names == {pt[k].votes[j].agent : j \in 1..Len(pt[k].votes)}
             r == AgentsVote(pt[k].votes, voted_agent_names, 1, generated[k])
         IN  IF r.raised
             THEN [pt |-> [pt EXCEPT ![k].votes = r.votes], raised |-> TRUE]
             ELSE VoteFrom([pt EXCEPT ![k].votes = r.votes,
                                      ![k].status = DecideStatus(r.votes, @)],
                           k + 1, generated)

\* A filter that lets everything but the rejected proposals through.
GetUnrejectedTransactions(pt) ==
    SelectSeq([k \in 1..Len(pt) |-> k], LAMBDA k : pt[k].status # "rejected")

GetApprovedTransactions(pt) ==
    SelectSeq([k \in 1..Len(pt) |-> k], LAMBDA k : pt[k].status = "approved")

Truthy(x) == x # None /\ x # ""

\* A mark that starts the marked proposal's vote list afresh.
MarkTransactionProcessedFresh(pt, tx_id, final_status, tx_hash, error_message) ==
    LET hits == {k \in 1..Len(pt) : pt[k].id = tx_id}
    IN  IF hits = {} THEN pt
        ELSE [pt EXCEPT ![Min(hits)].status = final_status,
                        ![Min(hits)].votes = <<>>]

\* Lines 251-258: the first proposal with the id gets the status, and the
\* hash and the message when they are truthy.
MarkTransactionProcessed(pt, tx_id, final_status, tx_hash, error_message) ==
    LET hits == {k \in 1..Len(pt) : pt[k].id = tx_id}
    IN  IF hits = {} THEN pt
        ELSE LET k == Min(hits)
             IN  [pt EXCEPT ![k].status = final_status,
                            ![k].tx_hash = IF Truthy(tx_hash) THEN tx_hash ELSE @,
                            ![k].error_message =
                                IF Truthy(error_message) THEN error_message ELSE @]

(***************************************************************************)
(* CryptoPortfolio.update_holding: a balance below 1e-12 in absolute value *)
(* is deleted, which reads as 0.                                           *)
(***************************************************************************)
UpdateHolding(h, crypto_symbol, amount_change) ==
    LET new_balance == h[crypto_symbol] + amount_change
    IN  [h EXCEPT ![crypto_symbol] =
            IF Abs(new_balance) < DustThreshold THEN 0 ELSE new_balance]

(***************************************************************************)
(* AgentGroup.propose_trade                                                *)
(***************************************************************************)
ProposeTradeResult(pt, parts, tx_id) ==
    IF Len(parts) = 5 THEN
        LET input_amount == ParseFloat(parts[3])
        IN  IF ~input_amount.ok THEN pt
            ELSE IF input_amount.value <= AmountEpsilon THEN pt
            ELSE ProposeTransaction(pt,
                    [action |-> "TRADE",
                     input_token |-> TokenUpper(parts[1]),
                     output_token |-> TokenUpper(parts[2]),
                     input_amount |-> input_amount.value,
                     network_name |-> TokenLower(parts[4]),
                     dex_name |-> TokenLower(parts[5])],
                    tx_id)
    ELSE IF Len(parts) = 3 /\ TokenUpper(parts[1]) \in {"BUY", "SELL"} THEN
        LET amount == ParseFloat(parts[2])
        IN  IF ~amount.ok THEN pt
            ELSE ProposeTransaction(pt,
                    [action |-> TokenUpper(parts[1]),
                     amount |-> amount.value,
                     crypto |-> TokenUpper(parts[3]),
                     simulated |-> TRUE],
                    tx_id)
    ELSE pt

(***************************************************************************)
(* The session the batch caches, and the executor's result.                *)
(***************************************************************************)
NoWeb3 == [connected |-> FALSE, network |-> None]
NoWallet == [loaded |-> FALSE, network |-> None]

\* A connect_to_network that connects to one network, whichever is asked for.
ConnectToNetworkFixed(network_name, reachable) ==
    IF reachable THEN [connected |-> TRUE, network |-> "sepolia"] ELSE NoWeb3

\* connect_to_network: a Web3 instance for the network, or None.
ConnectToNetwork(network_name, reachable) ==
    IF reachable THEN [connected |-> TRUE, network |-> network_name] ELSE NoWeb3

\* load_wallet: an account loaded through the instance, or None.
LoadWallet(web3_instance, network_name, key_ok) ==
    IF web3_instance.connected /\ key_ok
    THEN [loaded |-> TRUE, network |-> network_name]
    ELSE NoWallet

\* What one call of execute_trade can come to: a (tx_hash, success, message)
\* result, or an exception that leaves the function.
ExecOutcomes == {"success", "failed_before_send", "failed_after_send",
                 "failed_approval", "raised"}

ExecuteTrade(web3_instance, wallet_account, outcome) ==
    IF ~web3_instance.connected \/ ~wallet_account.loaded
    THEN [raised |-> FALSE, tx_hash |-> None, trade_success |-> FALSE,
          message |-> "Web3 instance or wallet account missing"]
    ELSE CASE outcome = "success" ->
                [raised |-> FALSE, tx_hash |-> "0xswap", trade_success |-> TRUE,
                 message |-> "Swap successful"]
           [] outcome = "failed_before_send" ->
                [raised |-> FALSE, tx_hash |-> None, trade_success |-> FALSE,
                 message |-> "Gas estimation failed"]
           [] outcome = "failed_after_send" ->
                [raised |-> FALSE, tx_hash |-> "0xswap", trade_success |-> FALSE,
                 message |-> "Swap transaction failed on-chain"]
           [] outcome = "failed_approval" ->
                [raised |-> FALSE, tx_hash |-> "Exception during approval",
                 trade_success |-> FALSE, message |-> "Approval failed"]
           [] OTHER ->
                [raised |-> TRUE, tx_hash |-> None, trade_success |-> FALSE,
                 message |-> "ValueError"]

Bump(counts, i) == [counts EXCEPT ![i] = @ + 1]

(***************************************************************************)
(* Python integers and floats of execute_trade.  An unbounded int is the   *)
(* sequence of its digits in base 2^15, lowest first, without leading      *)
(* zeros (0 is <<>>).  A float is [m, e], the IEEE double m * 2^e with m   *)
(* of at most MantissaBits bits; results are rounded to nearest, ties to   *)
(* even.                                                                   *)
(***************************************************************************)
MantissaBits == 53
LimbBits == 15
Base == 2 ^ LimbBits

RECURSIVE Norm(_)
Norm(b) ==
    IF b = <<>> THEN <<>>
    ELSE IF b[Len(b)] = 0 THEN Norm(SubSeq(b, 1, Len(b) - 1)) ELSE b

RECURSIVE FromNat(_)
FromNat(n) == IF n = 0 THEN <<>> ELSE <<n % Base>> \o FromNat(n \div Base)

LimbAt(b, i) == IF i >= 1 /\ i <= Len(b) THEN b[i] ELSE 0

RECURSIVE AddFrom(_, _, _, _)
AddFrom(a, b, i, carry) ==
    IF i > Len(a) /\ i > Len(b)
    THEN (IF carry > 0 THEN <<carry>> ELSE <<>>)
    ELSE LET sum == LimbAt(a, i) + LimbAt(b, i) + carry
         IN  <<sum % Base>> \o AddFrom(a, b, i + 1, sum \div Base)

Add(a, b) == AddFrom(a, b, 1, 0)

\* a - b for a >= b.
RECURSIVE SubFrom(_, _, _, _)
SubFrom(a, b, i, borrow) ==
    IF i > Len(a) THEN <<>>
    ELSE LET diff == LimbAt(a, i) - LimbAt(b, i) - borrow
         IN  <<diff % Base>> \o SubFrom(a, b, i + 1, IF diff < 0 THEN 1 ELSE 0)

Sub(a, b) == Norm(SubFrom(a, b, 1, 0))

\* a * d for one digit d.
RECURSIVE MulDigitFrom(_, _, _, _)
MulDigitFrom(a, d, i, carry) ==
    IF i > Len(a)
    THEN (IF carry > 0 THEN <<carry>> ELSE <<>>)
    ELSE LET prod == a[i] * d + carry
         IN  <<prod % Base>> \o MulDigitFrom(a, d, i + 1, prod \div Base)

MulDigit(a, d) == IF d = 0 THEN <<>> ELSE MulDigitFrom(a, d, 1, 0)

ShlLimbs(b, k) == IF b = <<>> THEN <<>> ELSE [i \in 1..k |-> 0] \o b

RECURSIVE MulFrom(_, _, _)
MulFrom(a, b, i) ==
    IF i > Len(b) THEN <<>>
    ELSE Add(ShlLimbs(MulDigit(a, b[i]), i - 1), MulFrom(a, b, i + 1))

Mul(a, b) == MulFrom(a, b, 1)

Less(a, b) ==
    IF Len(a) # Len(b) THEN Len(a) < Len(b)
    ELSE \E i \in 1..Len(a) :
            /\ a[i] < b[i]
            /\ \A j \in (i + 1)..Len(a) : a[j] = b[j]

\* The number of bits of an int.
BitLen(b) ==
    IF b = <<>> THEN 0
    ELSE (Len(b) - 1) * LimbBits
         + (CHOOSE k \in 1..LimbBits : 2 ^ (k - 1) <= b[Len(b)] /\ b[Len(b)] < 2 ^ k)

\* Bit k of an int, the lowest being bit 1.
BitAt(b, k) ==
    (LimbAt(b, ((k - 1) \div LimbBits) + 1) \div (2 ^ ((k - 1) % LimbBits))) % 2

Shl(b, k) == ShlLimbs(MulDigit(b, 2 ^ (k % LimbBits)), k \div LimbBits)

Shr(b, k) ==
    LET whole == k \div LimbBits
        r == k % LimbBits
        top == IF whole >= Len(b) THEN <<>> ELSE SubSeq(b, whole + 1, Len(b))
    IN  Norm([i \in 1..Len(top) |->
                 (top[i] \div (2 ^ r)) + (LimbAt(top, i + 1) % (2 ^ r)) * (2 ^ (LimbBits - r))])

\* b / 2^k rounded to the nearest integer, ties to the even one (k >= 1).
RoundShr(b, k) ==
    LET q == Shr(b, k)
        half == BitAt(b, k) = 1
        rest == \E i \in 1..(k - 1) : BitAt(b, i) = 1
    IN  IF half /\ (rest \/ BitAt(q, 1) = 1) THEN Add(q, <<1>>) ELSE q

\* The double nearest to m * 2^e.
RoundToDouble(m, e) ==
    IF BitLen(m) <= MantissaBits THEN [m |-> m, e |-> e]
    ELSE LET k == BitLen(m) - MantissaBits
         IN  [m |-> RoundShr(m, k), e |-> e + k]

\* float(n) of an int, as int * float converts its left operand.
ToFloat(n) == RoundToDouble(n, 0)

FloatMul(x, y) == RoundToDouble(Mul(x.m, y.m), x.e + y.e)

\* 1 - x for a float 0 < x < 1.
OneMinus(x) == RoundToDouble(Sub(Shl(<<1>>, -x.e), x.m), x.e)

\* int(x) of a float x >= 0: truncation.
FloatToInt(x) == IF x.e >= 0 THEN Shl(x.m, x.e) ELSE Shr(x.m, -x.e)

\* The default slippage_tolerance=0.01 as a double: 0x1.47ae147ae147bp-7.
SlippageTolerance ==
    [m |-> Add(Mul(Add(Mul(FromNat(5242), FromNat(2 ^ 20)), FromNat(922746)),
                   FromNat(2 ^ 20)),
               FromNat(922747)),
     e |-> -59]

\* Line 455: min_out_wei = int(estimated_out_wei * (1 - slippage_tolerance)).
MinOutWei(estimated_out_wei, slippage_tolerance) ==
    FloatToInt(FloatMul(ToFloat(estimated_out_wei), OneMinus(slippage_tolerance)))

(***************************************************************************)
(* evm_utils.approve_token and evm_utils.execute_trade, step by step.      *)
(* faults is the set of steps that fail in this call; every step the call  *)
(* reaches is recorded as an event.                                        *)
(***************************************************************************)
TradeFaults ==
    {"config_missing", "bad_router_address", "decimals_read", "quote_call",
     "approve_allowance_read", "approve_nonce_read", "approve_gas_estimate",
     "approve_sign", "approve_send", "approve_receipt_timeout", "approve_reverted",
     "swap_nonce_read", "swap_build", "swap_gas_estimate", "swap_sign",
     "swap_send", "swap_receipt_timeout", "swap_reverted"}

ApproveHash == "0xapprove"
SwapHash == "0xswap"

Ev(step) == [step |-> step, min_out |-> <<>>]

ApproveException == "Exception during approval"

\* The approve transaction of lines 326-355, from the gas estimate on.
ApproveTransaction(faults, current_allowance, amount_raw, events) ==
    LET estimated == Append(events,
                            IF "approve_gas_estimate" \in faults
                            THEN Ev("approve_estimate_failed")
                            ELSE Ev("approve_estimated"))
        signed == Append(estimated, Ev("approve_sign"))
        sent == Append(signed, Ev("approve_send"))
    IN  IF "approve_sign" \in faults
        THEN [ok |-> FALSE, msg_or_hash |-> ApproveException,
              events |-> estimated, allowance |-> current_allowance]
        ELSE IF "approve_send" \in faults
        THEN [ok |-> FALSE, msg_or_hash |-> ApproveException,
              events |-> signed, allowance |-> current_allowance]
        ELSE IF "approve_receipt_timeout" \in faults
        THEN [ok |-> FALSE, msg_or_hash |-> ApproveException,
              events |-> Append(sent, Ev("approve_receipt_timeout")),
              allowance |-> current_allowance]
        ELSE IF "approve_reverted" \in faults
        THEN [ok |-> FALSE, msg_or_hash |-> ApproveHash,
              events |-> Append(sent, Ev("approve_receipt_reverted")),
              allowance |-> current_allowance]
        ELSE [ok |-> TRUE, msg_or_hash |-> ApproveHash,
              events |-> Append(sent, Ev("approve_receipt_ok")),
              allowance |-> amount_raw]

\* An approve_token that takes any receipt for a success.
ApproveTokenAnyReceipt(faults, current_allowance, amount_raw) ==
    IF "approve_allowance_read" \in faults
    THEN [ok |-> FALSE, msg_or_hash |-> ApproveException,
          events |-> <<Ev("allowance_read_failed")>>, allowance |-> current_allowance]
    ELSE IF current_allowance >= amount_raw
    THEN [ok |-> TRUE, msg_or_hash |-> "Allowance already sufficient.",
          events |-> <<Ev("allowance_sufficient")>>, allowance |-> current_allowance]
    ELSE IF "approve_nonce_read" \in faults
    THEN [ok |-> FALSE, msg_or_hash |-> ApproveException,
          events |-> <<Ev("allowance_insufficient")>>, allowance |-> current_allowance]
    ELSE [ApproveTransaction(faults, current_allowance, amount_raw,
                             <<Ev("allowance_insufficient")>>)
            EXCEPT !.ok = "approve_sign" \notin faults /\ "approve_send" \notin faults
                          /\ "approve_receipt_timeout" \notin faults]

\* approve_token (lines 309-358) for an ERC20 input whose configuration
\* execute_trade has already found.
ApproveToken(faults, current_allowance, amount_raw) ==
    IF "approve_allowance_read" \in faults
    THEN [ok |-> FALSE, msg_or_hash |-> ApproveException,
          events |-> <<Ev("allowance_read_failed")>>, allowance |-> current_allowance]
    ELSE IF current_allowance >= amount_raw
    THEN [ok |-> TRUE, msg_or_hash |-> "Allowance already sufficient.",
          events |-> <<Ev("allowance_sufficient")>>, allowance |-> current_allowance]
    ELSE IF "approve_nonce_read" \in faults
    THEN [ok |-> FALSE, msg_or_hash |-> ApproveException,
          events |-> <<Ev("allowance_insufficient")>>, allowance |-> current_allowance]
    ELSE ApproveTransaction(faults, current_allowance, amount_raw,
                            <<Ev("allowance_insufficient")>>)

TradeResult(tx_hash, trade_success, message, events, new_allowance) ==
    [raised |-> FALSE, tx_hash |-> tx_hash, trade_success |-> trade_success,
     message |-> message, events |-> events, allowance |-> new_allowance]

TradeRaised(exception, events, new_allowance) ==
    [raised |-> TRUE, tx_hash |-> None, trade_success |-> FALSE,
     message |-> exception, events |-> events, allowance |-> new_allowance]

\* Lines 494-546: the swap transaction, after quote and approval.
SwapTransaction(faults, is_input_native, amount_in_wei, min_out_wei, events, current_allowance) ==
    LET estimated == Append(events, Ev("swap_estimated"))
        signed == Append(estimated, Ev("swap_sign"))
        sent == Append(signed, [step |-> "swap_send", min_out |-> min_out_wei])
    IN  IF "swap_nonce_read" \in faults
        THEN TradeRaised("ConnectionError", events, current_allowance)
        ELSE IF "swap_build" \in faults
        THEN TradeResult(None, FALSE, "Trade execution error", events,
                         current_allowance)
        ELSE IF "swap_gas_estimate" \in faults
        THEN TradeResult(None, FALSE, "Gas estimation failed",
                         Append(events, Ev("swap_estimate_failed")),
                         current_allowance)
        ELSE IF "swap_sign" \in faults
        THEN TradeResult(None, FALSE, "Trade execution error", estimated,
                         current_allowance)
        ELSE IF "swap_send" \in faults
        THEN TradeResult(None, FALSE, "Trade execution error", signed,
                         current_allowance)
        ELSE IF "swap_receipt_timeout" \in faults
        THEN TradeResult(SwapHash, FALSE, "Trade execution error",
                         Append(sent, Ev("swap_receipt_timeout")),
                         current_allowance)
        ELSE IF "swap_reverted" \in faults
        THEN TradeResult(SwapHash, FALSE, "Swap transaction failed on-chain",
                         Append(sent, Ev("swap_receipt_reverted")),
                         current_allowance)
        ELSE TradeResult(SwapHash, TRUE, "Swap successful",
                         Append(sent, Ev("swap_receipt_ok")),
                         IF is_input_native THEN current_allowance
                         ELSE current_allowance - amount_in_wei)

\* Lines 436-440 and 498-503: the router function execute_trade calls, the
\* value it sends along, and the end of the path it passes (the wrapped
\* native token where the output is the native currency).  The ABI of
\* lines 56-60 holds these two swap functions and getAmountsOut.
SwapFunctionCall(is_input_native, is_output_native) ==
    [function |-> IF is_input_native THEN "swapExactETHForTokens"
                  ELSE "swapExactTokensForTokens",
     value |-> IF is_input_native THEN "amount_in_wei" ELSE "0",
     path_end |-> IF is_output_native THEN "WETH" ELSE "output_token"]

\* execute_trade (lines 361-546) with a session and a wallet.
ExecuteTradeCall(faults, is_input_native, amount_in_wei, estimated_out_wei, current_allowance) ==
    IF "config_missing" \in faults
    THEN TradeResult(None, FALSE, "Configuration not loaded", <<>>, current_allowance)
    ELSE IF "bad_router_address" \in faults
    THEN TradeRaised("ValueError", <<>>, current_allowance)
    ELSE IF ~is_input_native /\ "decimals_read" \in faults
    THEN TradeResult(None, FALSE, "Could not get decimals", <<>>, current_allowance)
    ELSE IF amount_in_wei <= 0
    THEN TradeResult(None, FALSE, "Input amount must be positive.", <<>>,
                     current_allowance)
    ELSE IF "quote_call" \in faults
    THEN TradeResult(None, FALSE, "Could not estimate output",
                     <<Ev("quote_failed")>>, current_allowance)
    ELSE
      LET min_out_wei == MinOutWei(estimated_out_wei, SlippageTolerance)
          approval == IF is_input_native
                      THEN [ok |-> TRUE, msg_or_hash |-> None, events |-> <<>>,
                            allowance |-> current_allowance]
                      ELSE ApproveToken(faults, current_allowance, amount_in_wei)
          events == <<Ev("quote")>> \o approval.events
      IN  IF min_out_wei = <<>>
          THEN TradeResult(None, FALSE, "Estimated minimum output is zero or less.",
                           <<Ev("quote")>>, current_allowance)
          ELSE IF ~approval.ok
          THEN TradeResult(approval.msg_or_hash, FALSE, "Approval failed", events,
                           approval.allowance)
          ELSE SwapTransaction(faults, is_input_native, amount_in_wei, min_out_wei,
                               events, approval.allowance)

(***************************************************************************)
(* solana_utils.execute_jupiter_swap.  faults is the set of steps that     *)
(* fail in this call, blockhash what get_latest_blockhash returns and      *)
(* response the JSON body of the /execute endpoint.                        *)
(***************************************************************************)
JupiterFaults ==
    {"blockhash_raises", "blockhash_empty", "decode", "sign", "http_error",
     "bad_json"}

JupiterEv(step, blockhash) == [step |-> step, blockhash |-> blockhash]

\* An Optional[int] that is None.
NoAmount == [present |-> FALSE, value |-> 0]

\* Whether the call got as far as the POST to the execute endpoint.
Posted(events) == \E i \in 1..Len(events) : events[i].step = "execute_post"

SolanaSwapResult(success, signature, error_message, events) ==
    [raised |-> FALSE, success |-> success, signature |-> signature,
     error_message |-> error_message, input_amount_processed |-> NoAmount,
     output_amount_processed |-> NoAmount, events |-> events]

\* int(s) of an amount the endpoint sends as text, or ValueError.
ParseInt(s) ==
    CASE s = "1000" -> [ok |-> TRUE, value |-> 1000]
      [] s = "990" -> [ok |-> TRUE, value |-> 990]
      [] OTHER -> [ok |-> FALSE, value |-> 0]

\* Lines 321-322: int(x) if x else None.
ProcessedAmount(x) ==
    IF Truthy(x) THEN [present |-> TRUE, value |-> ParseInt(x).value] ELSE NoAmount

AmountParses(x) == ~Truthy(x) \/ ParseInt(x).ok

\* Lines 336-337: the finally clause reads close_session_after, which is
\* assigned at line 312 only; reached before that line it raises
\* UnboundLocalError in place of the pending return.
JupiterFinally(close_session_after_bound, result) ==
    IF close_session_after_bound THEN result
    ELSE [raised |-> TRUE, success |-> FALSE, signature |-> None,
          error_message |-> "UnboundLocalError", input_amount_processed |-> NoAmount,
          output_amount_processed |-> NoAmount, events |-> result.events]

\* Lines 295-337: the try block; success is the outcome of the test of the
\* response status at line 319.
JupiterTry(quote, faults, blockhash, response, success) ==
    LET requested == <<JupiterEv("blockhash_request", blockhash)>>
        signing == Append(requested, JupiterEv("sign", blockhash))
        posted == Append(signing, JupiterEv("execute_post", None))
    IN  IF "blockhash_raises" \in faults
        THEN JupiterFinally(FALSE,
                 SolanaSwapResult(FALSE, None, "Exception",
                                  <<JupiterEv("blockhash_request", None)>>))
        ELSE IF "blockhash_empty" \in faults
        THEN JupiterFinally(FALSE,
                 SolanaSwapResult(FALSE, None, "Failed to get recent blockhash.",
                                  <<JupiterEv("blockhash_request", None)>>))
        ELSE IF "decode" \in faults
        THEN JupiterFinally(FALSE, SolanaSwapResult(FALSE, None, "Exception", requested))
        ELSE IF "sign" \in faults
        THEN JupiterFinally(FALSE, SolanaSwapResult(FALSE, None, "Exception", signing))
        ELSE IF "http_error" \in faults \/ "bad_json" \in faults
        THEN JupiterFinally(TRUE, SolanaSwapResult(FALSE, None, "Exception", posted))
        ELSE IF success /\ ~(/\ AmountParses(response.inputAmountResult)
                              /\ AmountParses(response.outputAmountResult))
        THEN JupiterFinally(TRUE, SolanaSwapResult(FALSE, None, "Exception", posted))
        ELSE IF success
        THEN JupiterFinally(TRUE,
                 [SolanaSwapResult(TRUE, response.signature, None, posted)
                    EXCEPT !.input_amount_processed =
                               ProcessedAmount(response.inputAmountResult),
                           !.output_amount_processed =
                               ProcessedAmount(response.outputAmountResult)])
        ELSE JupiterFinally(TRUE,
                 SolanaSwapResult(FALSE, response.signature,
                                  "Jupiter swap execution failed", posted))

\* A swap without the test of line 293: the empty blob reaches the decoder.
ExecuteJupiterSwapUnchecked(quote, faults, blockhash, response) ==
    JupiterTry(quote,
               IF Truthy(quote.transaction_b64) THEN faults ELSE faults \cup {"decode"},
               blockhash, response, response.status = "Success")

\* A swap that takes a response with a signature for a success.
ExecuteJupiterSwapBySignature(quote, faults, blockhash, response) ==
    IF ~Truthy(quote.transaction_b64)
    THEN SolanaSwapResult(FALSE, None, "No transaction string in quote.", <<>>)
    ELSE JupiterTry(quote, faults, blockhash, response,
                    response.status = "Success" \/ response.signature # None)

\* A swap without the test of line 298: it signs with whatever came back.
ExecuteJupiterSwapAnyBlockhash(quote, faults, blockhash, response) ==
    IF ~Truthy(quote.transaction_b64)
    THEN SolanaSwapResult(FALSE, None, "No transaction string in quote.", <<>>)
    ELSE JupiterTry(quote, faults \ {"blockhash_empty"},
                    IF "blockhash_empty" \in faults THEN None ELSE blockhash,
                    response, response.status = "Success")

\* A swap that reports the amounts of the response whatever its status.
ExecuteJupiterSwapAmountsAlways(quote, faults, blockhash, response) ==
    IF ~Truthy(quote.transaction_b64)
    THEN SolanaSwapResult(FALSE, None, "No transaction string in quote.", <<>>)
    ELSE LET r == JupiterTry(quote, faults, blockhash, response,
                             response.status = "Success")
         IN  IF r.raised \/ ~Posted(r.events) THEN r
             ELSE [r EXCEPT !.input_amount_processed =
                                ProcessedAmount(response.inputAmountResult)]

\* execute_jupiter_swap (lines 279-337).
ExecuteJupiterSwap(quote, faults, blockhash, response) ==
    IF ~Truthy(quote.transaction_b64)
    THEN SolanaSwapResult(FALSE, None, "No transaction string in quote.", <<>>)
    ELSE JupiterTry(quote, faults, blockhash, response, response.status = "Success")

\* A function that closes the session it used, whoever created it.
JupiterSessionClosesUsed(session_supplied, reached) ==
    [supplied |-> session_supplied, created |-> reached /\ ~session_supplied,
     closed |-> IF ~reached THEN {}
                ELSE IF session_supplied THEN {"supplied"} ELSE {"created"}]

\* The HTTP session of a call of fetch_jupiter_quote (lines 254-255 and
\* 276-277) or execute_jupiter_swap (lines 312-313 and 336-337): a session is
\* created when the caller passed none, which sets close_session_after, and
\* the finally clause closes the session when close_session_after is set.
\* reached tells whether the call got to the line that creates the session.
JupiterSession(session_supplied, reached) ==
    LET created == reached /\ ~session_supplied
        close_session_after == created
    IN  [supplied |-> session_supplied, created |-> created,
         closed |-> IF reached /\ close_session_after THEN {"created"} ELSE {}]

\* fetch_jupiter_quote (lines 233-277): the quote, or None; every failure is
\* inside the try block, whose finally clause handles the session.
FetchJupiterQuote(session_supplied, faults) ==
    [returned |-> faults = {},
     quote |-> IF faults = {}
               THEN [request_id |-> "r1", transaction_b64 |-> "AQAB"]
               ELSE [request_id |-> None, transaction_b64 |-> None],
     session |-> JupiterSession(session_supplied, TRUE)]

\* _load_solana_config (lines 83-125) on the cache config, with the file
\* config.json valid, missing, not JSON ("invalid_json") or JSON that is no
\* object ("not_object"); no environment variable is set. Line 96 answers
\* True when the flag is set, line 99 sets the flag before the file is read.
LoadSolanaConfig(config, file) ==
    IF config.loaded_flag THEN [config |-> config, result |-> TRUE]
    ELSE LET flagged == [config EXCEPT !.loaded_flag = TRUE]
         IN  IF file \in {"invalid_json", "not_object"}
             THEN [config |-> flagged, result |-> FALSE]
             ELSE [config |-> [flagged EXCEPT !.solana_rpc_url_devnet =
                                   IF file = "valid" THEN "https://devnet"
                                   ELSE None],
                   result |-> TRUE]

\* No executor call has been made yet.
NoTradeCall ==
    [called |-> FALSE, faults |-> {}, is_input_native |-> FALSE,
     is_output_native |-> FALSE,
     swap_function_call |-> [function |-> None, value |-> None, path_end |-> None],
     amount_in_wei |-> 0, estimated_out_wei |-> <<>>, allowance_before |-> 0,
     raised |-> FALSE, tx_hash |-> None, trade_success |-> FALSE,
     message |-> None, events |-> <<>>]

NoSwapCall ==
    [called |-> FALSE, faults |-> {}, quote |-> [request_id |-> None,
                                                transaction_b64 |-> None],
     response |-> [status |-> None, signature |-> None,
                   inputAmountResult |-> None, outputAmountResult |-> None],
     raised |-> FALSE, success |-> FALSE, signature |-> None,
     error_message |-> None, input_amount_processed |-> NoAmount,
     output_amount_processed |-> NoAmount, events |-> <<>>,
     session |-> [supplied |-> FALSE, created |-> FALSE, closed |-> {}]]

\* No trade has been handed to a worker thread yet.
NoWorker ==
    [state |-> "idle", pos |-> 0, tx_id |-> <<>>, web3 |-> NoWeb3,
     wallet |-> NoWallet, calls |-> {},
     result |-> [raised |-> FALSE, tx_hash |-> None, trade_success |-> FALSE,
                 message |-> None]]

\* No on-chain iteration has run yet.
NoIteration ==
    [pos |-> 0, network |-> None, cached |-> FALSE, got |-> None, calls |-> {}]

\* None of the constructor, prune, save and load has been called yet.
NoCall ==
    [op |-> None, num_agents |-> 0, configured |-> NoAmount, raised |-> FALSE,
     required_signatures |-> 0, pending_transactions |-> <<>>]

\* discussion_state.json does not exist.
NoFile ==
    [exists |-> FALSE, pending_transactions |-> <<>>, portfolio_holdings |-> <<>>,
     simulated_fund_usd |-> 0]

(***************************************************************************)
(* State after construction.                                               *)
(***************************************************************************)
HoldingSymbols == {"BTC", "WETH"}

Init ==
    /\ pending_transactions = <<>>
    /\ required_signatures \in 1..NumAgents
    /\ now = 0
    /\ simulated_fund_usd = 0
    /\ holdings = UpdateHolding([c \in HoldingSymbols |-> 0], "BTC", InitialSimulatedBtc)
    /\ context = [portfolio_summary |-> holdings, simulated_fund_usd |-> 0]
    /\ rpc_urls_configured \in BOOLEAN
    /\ pc = "idle"
    /\ approved_tx_wrappers = <<>>
    /\ batch_pos = 0
    /\ active_web3_instance = NoWeb3
    /\ active_wallet_account = NoWallet
    /\ active_network_name = None
    /\ exec_count = <<>>
    /\ last_error = None
    /\ allowance = 0
    /\ trade_call = NoTradeCall
    /\ swap_call = NoSwapCall
    /\ submitted_requests = <<>>
    /\ worker = NoWorker
    /\ iteration = NoIteration
    /\ last_call = NoCall
    /\ saved_state = NoFile
    /\ fetch_call = [called |-> FALSE, faults |-> {}, returned |-> FALSE,
                     quote |-> [request_id |-> None, transaction_b64 |-> None],
                     session |-> [supplied |-> FALSE, created |-> FALSE,
                                  closed |-> {}]]
    /\ solana_config = [loaded_flag |-> FALSE, solana_rpc_url_devnet |-> None]
    /\ load_calls = [file |-> None, results |-> <<>>, rpc_url |-> None]

(***************************************************************************)
(* Operations.                                                             *)
(***************************************************************************)
\* One second passes.
Tick ==
    /\ pc = "idle"
    /\ now < MaxTime
    /\ now' = now + 1
    /\ UNCHANGED exec_vars
    /\ UNCHANGED <<pending_transactions, required_signatures, fund_vars,
                   rpc_urls_configured, batch_vars, exec_count, last_error>>

\* AgentGroup.propose_trade(trade_details_string), parts being its tokens and
\* r the random suffix propose_transaction draws; cap bounds the ledger.
ProposeTrade(parts, r, cap) ==
    /\ pc = "idle"
    /\ LET new == ProposeTradeResult(pending_transactions, parts, MakeTxId(now, r))
       IN  /\ Len(new) <= cap
           /\ pending_transactions' = new
           /\ exec_count' = IF Len(new) > Len(pending_transactions)
                            THEN Append(exec_count, 0)
                            ELSE exec_count
    /\ last_error' = None
    /\ UNCHANGED exec_vars
    /\ UNCHANGED <<required_signatures, now, fund_vars, rpc_urls_configured,
                   batch_vars>>

\* MultisigWallet.vote_on_transactions(context); generated[k][a] is what the
\* model of agent a generates for the proposal at position k.
VoteOnTransactions(generated) ==
    /\ pc = "idle"
    /\ LET r == VoteFrom(pending_transactions, 1, generated)
       IN  /\ pending_transactions' = r.pt
           /\ last_error' = IF r.raised THEN "IndexError" ELSE None
    /\ UNCHANGED exec_vars
    /\ UNCHANGED <<required_signatures, now, fund_vars, rpc_urls_configured,
                   batch_vars, exec_count>>

PendingPositions ==
    {k \in 1..Len(pending_transactions) : pending_transactions[k].status = "pending"}

\* execute_approved_transactions, lines 516-529: the snapshot of the approved
\* proposals; the function returns at once when there is none.
BatchStart ==
    /\ pc = "idle"
    /\ LET approved == GetApprovedTransactions(pending_transactions)
       IN  /\ \A k \in 1..Len(approved) : exec_count[approved[k]] < MaxExecCount
           /\ IF approved = <<>>
              THEN UNCHANGED <<pc, approved_tx_wrappers, batch_pos>>
              ELSE /\ pc' = "batch"
                   /\ approved_tx_wrappers' = approved
                   /\ batch_pos' = 1
    /\ active_web3_instance' = NoWeb3
    /\ active_wallet_account' = NoWallet
    /\ active_network_name' = None
    /\ last_error' = None
    /\ UNCHANGED exec_vars
    /\ UNCHANGED <<pending_transactions, required_signatures, now, fund_vars,
                   rpc_urls_configured, exec_count>>

\* Lines 540-567: one loop iteration for a simulated BUY/SELL proposal.
SimulatedStep(i, tx_data, tx_id) ==
    LET action == tx_data.action
        amount == tx_data.amount
        crypto == tx_data.crypto
        buy_ok == simulated_fund_usd >= amount
        sell_ok == holdings[crypto] >= amount
        final_status ==
            IF action = "BUY"
            THEN (IF buy_ok THEN "executed_simulated_buy"
                  ELSE "failed_simulated_insufficient_funds")
            ELSE IF action = "SELL"
            THEN (IF sell_ok THEN "executed_simulated_sell"
                  ELSE "failed_simulated_insufficient_tokens")
            ELSE pending_transactions[i].status
    IN  /\ simulated_fund_usd' =
               IF action = "BUY" /\ buy_ok THEN simulated_fund_usd - amount
               ELSE simulated_fund_usd
        /\ holdings' =
               IF action = "SELL" /\ sell_ok
               THEN UpdateHolding(holdings, crypto, -amount)
               ELSE holdings
        /\ pending_transactions' =
               MarkTransactionProcessed(pending_transactions, tx_id, final_status,
                                        None, None)
        /\ exec_count' = Bump(exec_count, i)
        /\ batch_pos' = batch_pos + 1
        /\ last_error' = None
        /\ UNCHANGED <<context, pc, approved_tx_wrappers, active_web3_instance,
                       active_wallet_account, active_network_name>>

\* A loop that connects and loads the wallet anew for every proposal.
AcquireSessionAlways(trade_network, reachable, key_ok) ==
    IF ~rpc_urls_configured
    THEN [got |-> "failed_config_error", web3 |-> active_web3_instance,
          wallet |-> active_wallet_account, network |-> active_network_name,
          error |-> "Missing RPC URLs in EVM config.", calls |-> {}]
    ELSE LET w3 == ConnectToNetwork(trade_network, reachable)
             wa == LoadWallet(w3, trade_network, key_ok)
         IN  IF ~w3.connected
             THEN [got |-> "failed_network_connect", web3 |-> w3,
                   wallet |-> active_wallet_account, network |-> None,
                   error |-> "Failed to connect", calls |-> {"connect_to_network"}]
             ELSE IF ~wa.loaded
             THEN [got |-> "failed_wallet_load", web3 |-> NoWeb3, wallet |-> wa,
                   network |-> None, error |-> "Failed to load wallet",
                   calls |-> {"connect_to_network", "load_wallet"}]
             ELSE [got |-> "session", web3 |-> w3, wallet |-> wa,
                   network |-> trade_network, error |-> None,
                   calls |-> {"connect_to_network", "load_wallet"}]

\* Lines 576-594: the session the iteration ends up with, and how far it got.
AcquireSession(trade_network, reachable, key_ok) ==
    IF \/ trade_network # active_network_name
       \/ ~active_web3_instance.connected
       \/ ~active_wallet_account.loaded
    THEN IF ~rpc_urls_configured
         THEN [got |-> "failed_config_error",
               web3 |-> active_web3_instance,
               wallet |-> active_wallet_account,
               network |-> active_network_name,
               error |-> "Missing RPC URLs in EVM config.",
               calls |-> {}]
         ELSE LET w3 == ConnectToNetwork(trade_network, reachable)
                  wa == LoadWallet(w3, trade_network, key_ok)
              IN  IF ~w3.connected
                  THEN [got |-> "failed_network_connect",
                        web3 |-> w3,
                        wallet |-> active_wallet_account,
                        network |-> None,
                        error |-> "Failed to connect",
                        calls |-> {"connect_to_network"}]
                  ELSE IF ~wa.loaded
                  THEN [got |-> "failed_wallet_load",
                        web3 |-> NoWeb3,
                        wallet |-> wa,
                        network |-> None,
                        error |-> "Failed to load wallet",
                        calls |-> {"connect_to_network", "load_wallet"}]
                  ELSE [got |-> "session",
                        web3 |-> w3,
                        wallet |-> wa,
                        network |-> trade_network,
                        error |-> None,
                        calls |-> {"connect_to_network", "load_wallet"}]
    ELSE [got |-> "session",
          web3 |-> active_web3_instance,
          wallet |-> active_wallet_account,
          network |-> active_network_name,
          error |-> None,
          calls |-> {}]

\* Lines 570-618: one loop iteration for an on-chain TRADE proposal.
OnChainStep(i, tx_data, tx_id, reachable, key_ok, outcome) ==
    LET s == AcquireSession(tx_data.network_name, reachable, key_ok)
        res == ExecuteTrade(s.web3, s.wallet, outcome)
    IN  IF s.got # "session"
        THEN /\ pending_transactions' =
                    MarkTransactionProcessed(pending_transactions, tx_id, s.got,
                                             None, s.error)
             /\ active_web3_instance' = s.web3
             /\ active_wallet_account' = s.wallet
             /\ active_network_name' = s.network
             /\ batch_pos' = batch_pos + 1
             /\ last_error' = None
             /\ UNCHANGED <<fund_vars, pc, approved_tx_wrappers, exec_count>>
        ELSE IF res.raised
        THEN \* the exception leaves execute_approved_transactions
             /\ pc' = "idle"
             /\ approved_tx_wrappers' = <<>>
             /\ batch_pos' = 0
             /\ active_web3_instance' = NoWeb3
             /\ active_wallet_account' = NoWallet
             /\ active_network_name' = None
             /\ exec_count' = Bump(exec_count, i)
             /\ last_error' = "Exception"
             /\ UNCHANGED <<pending_transactions, fund_vars>>
        ELSE /\ pending_transactions' =
                    MarkTransactionProcessed(
                        pending_transactions, tx_id,
                        IF res.trade_success THEN "executed_onchain_success"
                        ELSE "failed_onchain_execution",
                        res.tx_hash,
                        IF res.trade_success THEN None ELSE res.message)
             /\ holdings' =
                    IF res.trade_success
                    THEN UpdateHolding(holdings, tx_data.input_token,
                                       -tx_data.input_amount)
                    ELSE holdings
             /\ active_web3_instance' = s.web3
             /\ active_wallet_account' = s.wallet
             /\ active_network_name' = s.network
             /\ batch_pos' = batch_pos + 1
             /\ exec_count' = Bump(exec_count, i)
             /\ last_error' = None
             /\ UNCHANGED <<simulated_fund_usd, context, pc, approved_tx_wrappers>>

\* Lines 531-618: one iteration of the loop over the snapshot.
BatchStep(reachable, key_ok, outcome) ==
    /\ pc = "batch"
    /\ batch_pos <= Len(approved_tx_wrappers)
    /\ LET i == approved_tx_wrappers[batch_pos]
           tx_data == pending_transactions[i].transaction
           tx_id == pending_transactions[i].id
       IN  IF "simulated" \in DOMAIN tx_data
           THEN SimulatedStep(i, tx_data, tx_id)
           ELSE OnChainStep(i, tx_data, tx_id, reachable, key_ok, outcome)
    /\ UNCHANGED exec_vars
    /\ UNCHANGED <<required_signatures, now, rpc_urls_configured>>

\* Lines 620-622: the loop is over; the context is refreshed.
BatchEnd ==
    /\ pc = "batch"
    /\ batch_pos > Len(approved_tx_wrappers)
    /\ context' = [portfolio_summary |-> holdings,
                   simulated_fund_usd |-> simulated_fund_usd]
    /\ pc' = "idle"
    /\ approved_tx_wrappers' = <<>>
    /\ batch_pos' = 0
    /\ active_web3_instance' = NoWeb3
    /\ active_wallet_account' = NoWallet
    /\ active_network_name' = None
    /\ last_error' = None
    /\ UNCHANGED exec_vars
    /\ UNCHANGED <<pending_transactions, required_signatures, now,
                   simulated_fund_usd, holdings, rpc_urls_configured, exec_count>>

\* A direct call of MultisigWallet.mark_transaction_processed.
MarkProcessedCall(tx_id, final_status, tx_hash, error_message) ==
    /\ pc = "idle"
    /\ pending_transactions' =
           MarkTransactionProcessed(pending_transactions, tx_id, final_status,
                                    tx_hash, error_message)
    /\ last_error' = None
    /\ UNCHANGED exec_vars
    /\ UNCHANGED <<required_signatures, now, fund_vars, rpc_urls_configured,
                   batch_vars, exec_count>>

(***************************************************************************)
(* Inputs and the specification of the proposal lifecycle: proposals,      *)
(* voting rounds and execution batches, all within one second.             *)
(***************************************************************************)
Said(text) == [raised |-> FALSE, text |-> text]
GenerationFailed == [raised |-> TRUE, text |-> <<>>]

LifecycleGenerations == {Said(APPROVE), Said(REJECT)}

LifecycleTrades ==
    {<<"weth", "usdc", "2e-12", "Sepolia", "Uniswap_V2">>,
     <<"weth", "HONEY", "2e-12", "POLYGON", "uniswap_v2">>,
     <<"Sell", "2e-12", "btc">>}

Propose ==
    \E parts \in LifecycleTrades, r \in RandSuffixes :
        ProposeTrade(parts, r, MaxProposals)

Vote ==
    \E generated \in [PendingPositions -> [AgentNames -> LifecycleGenerations]] :
        VoteOnTransactions(generated)

Step ==
    \E reachable \in BOOLEAN, key_ok \in BOOLEAN, outcome \in ExecOutcomes :
        BatchStep(reachable, key_ok, outcome)

Next == Propose \/ Vote \/ BatchStart \/ Step \/ BatchEnd

Spec == Init /\ [][Next]_vars

(***************************************************************************)
(* The voting rounds alone, with the vote texts an agent can return.       *)
(***************************************************************************)
VoteGenerations ==
    {Said(<<" ", "a", "p", "p", "r", "o", "v", "e", "\n">>),
     Said(REJECT),
     Said(<<"N", "O">>),
     Said(<<>>),
     GenerationFailed}

ProposeForVote ==
    \E r \in RandSuffixes :
        ProposeTrade(<<"weth", "usdc", "2e-12", "Sepolia", "Uniswap_V2">>, r,
                     MaxVoteProposals)

VoteAny ==
    \E generated \in [PendingPositions -> [AgentNames -> VoteGenerations]] :
        VoteOnTransactions(generated)

NextVote == ProposeForVote \/ VoteAny

SpecVote == Init /\ [][NextVote]_vars

(***************************************************************************)
(* propose_trade alone, over well-formed and malformed trade strings, with *)
(* the clock running.                                                       *)
(***************************************************************************)
TradeStrings ==
    {<<"weth", out, amt, "Sepolia", "Uniswap_V2">> :
        out \in {"usdc", "HONEY"}, amt \in {"2e-12", "1e-18", "0", "-2e-12", "abc"}}
    \cup {<<act, amt, "btc">> :
        act \in {"buy", "Sell", "hold"}, amt \in {"2e-12", "0", "-2e-12", "abc"}}
    \cup {<<>>, <<"buy", "2e-12">>, <<"weth", "usdc", "2e-12", "Sepolia">>}

ProposeAny ==
    \E parts \in TradeStrings, r \in RandSuffixes :
        ProposeTrade(parts, r, MaxProposals)

NextPropose == Tick \/ ProposeAny

SpecPropose == Init /\ [][NextPropose]_vars

(***************************************************************************)
(* The MultisigWallet interface: proposals, voting rounds and direct calls *)
(* of mark_transaction_processed.                                          *)
(***************************************************************************)
\* The final statuses execute_approved_transactions hands to
\* mark_transaction_processed.
TerminalStatuses ==
    {"executed_simulated_buy", "executed_simulated_sell",
     "failed_simulated_insufficient_funds", "failed_simulated_insufficient_tokens",
     "failed_config_error", "failed_wallet_load", "failed_network_connect",
     "executed_onchain_success", "failed_onchain_execution"}

\* The ids of the proposals a caller marks: approved ones, and ones marked
\* before.
KnownIds ==
    {pending_transactions[k].id :
        k \in {j \in 1..Len(pending_transactions) :
                 pending_transactions[j].status \in {"approved"} \cup TerminalStatuses}}

MarkStatuses == {"executed_onchain_success", "failed_onchain_execution"}
MarkHashes == {None, "0xswap", "0xlate"}
MarkErrors == {None, "late error"}

MarkAny ==
    \E tx_id \in KnownIds, final_status \in MarkStatuses,
       tx_hash \in MarkHashes, error_message \in MarkErrors :
        MarkProcessedCall(tx_id, final_status, tx_hash, error_message)

NextApi == Propose \/ Vote \/ MarkAny

SpecApi == Init /\ [][NextApi]_vars

(***************************************************************************)
(* Calls of evm_utils.execute_trade against one chain, whose allowance     *)
(* they change.  Every fault but a failed approve gas estimate ends the    *)
(* call, so a call is given no fault, one fault, or the failed approve gas *)
(* estimate with one later fault.                                          *)
(***************************************************************************)
TradeFaultSets ==
    {{}} \cup {{f} : f \in TradeFaults}
         \cup {{"approve_gas_estimate", f} : f \in TradeFaults}

\* getAmountsOut results: 0, 1, 1000, 10^18 and 2 * 10^18 + 100 raw units.
Quotes ==
    {<<>>, FromNat(1), FromNat(1000),
     Mul(FromNat(1000000000), FromNat(1000000000)),
     Add(Mul(FromNat(2000000000), FromNat(1000000000)), FromNat(100))}

TradeAmounts == {0, 2}

TradeInputs ==
    {[faults |-> f, is_input_native |-> n, is_output_native |-> FALSE,
      amount_in_wei |-> 2, estimated_out_wei |-> FromNat(1000)] :
        f \in TradeFaultSets, n \in BOOLEAN}
    \cup {[faults |-> {}, is_input_native |-> n, is_output_native |-> FALSE,
           amount_in_wei |-> a, estimated_out_wei |-> q] :
        n \in BOOLEAN, a \in TradeAmounts, q \in Quotes}
    \cup {[faults |-> f, is_input_native |-> FALSE, is_output_native |-> TRUE,
           amount_in_wei |-> 2, estimated_out_wei |-> FromNat(1000)] :
        f \in {{}, {"swap_reverted"}}}

CallExecuteTrade(input) ==
    /\ LET r == ExecuteTradeCall(input.faults, input.is_input_native,
                                 input.amount_in_wei, input.estimated_out_wei,
                                 allowance)
       IN  /\ trade_call' =
                  [called |-> TRUE, faults |-> input.faults,
                   is_input_native |-> input.is_input_native,
                   is_output_native |-> input.is_output_native,
                   swap_function_call |->
                       IF \E i \in 1..Len(r.events) : r.events[i].step = "swap_send"
                       THEN SwapFunctionCall(input.is_input_native,
                                             input.is_output_native)
                       ELSE NoTradeCall.swap_function_call,
                   amount_in_wei |-> input.amount_in_wei,
                   estimated_out_wei |-> input.estimated_out_wei,
                   allowance_before |-> allowance,
                   raised |-> r.raised, tx_hash |-> r.tx_hash,
                   trade_success |-> r.trade_success, message |-> r.message,
                   events |-> r.events]
           /\ allowance' = r.allowance
    /\ UNCHANGED <<swap_call, submitted_requests, worker, iteration, last_call,
                   saved_state, fetch_call, solana_config, load_calls>>
    /\ UNCHANGED ledger_vars

TradeAny == \E input \in TradeInputs : CallExecuteTrade(input)

NextTrade == TradeAny

SpecTrade == Init /\ [][NextTrade]_vars

(***************************************************************************)
(* Calls of solana_utils.execute_jupiter_swap.                             *)
(***************************************************************************)
MaxSubmissions == 2     \* cap on the requests posted to the execute endpoint
MaxLoads == 3           \* cap on the calls of _load_solana_config

JupiterQuotes ==
    {[request_id |-> "r1", transaction_b64 |-> "AQAB"],
     [request_id |-> "r2", transaction_b64 |-> "AQAB"],
     [request_id |-> "r1", transaction_b64 |-> ""],
     [request_id |-> "r1", transaction_b64 |-> None]}

\* The JSON bodies of the execute endpoint; it sends the processed amounts
\* as decimal digits, or leaves them out.
JupiterResponse(status, signature, in_amount, out_amount) ==
    [status |-> status, signature |-> signature,
     inputAmountResult |-> in_amount, outputAmountResult |-> out_amount]

JupiterResponses ==
    {JupiterResponse("Success", "5sig", "1000", "990"),
     JupiterResponse("Success", "5sig", None, ""),
     JupiterResponse("success", "5sig", "1000", "990"),
     JupiterResponse("Failed", "5sig", "1000", "990"),
     JupiterResponse("Failed", None, None, None)}

Blockhashes == {"bh1", "bh2"}

JupiterInputs ==
    {[quote |-> q, faults |-> {f}, blockhash |-> b, session_supplied |-> s,
      response |-> JupiterResponse("Success", "5sig", "1000", "990")] :
        q \in JupiterQuotes, f \in JupiterFaults, b \in Blockhashes, s \in BOOLEAN}
    \cup {[quote |-> q, faults |-> {}, blockhash |-> b, session_supplied |-> s,
           response |-> r] :
        q \in JupiterQuotes, b \in Blockhashes, r \in JupiterResponses,
        s \in BOOLEAN}

CallExecuteJupiterSwap(input) ==
    /\ LET r == ExecuteJupiterSwap(input.quote, input.faults, input.blockhash,
                                   input.response)
           submitted == IF Posted(r.events)
                        THEN Append(submitted_requests,
                                    [request_id |-> input.quote.request_id,
                                     success |-> r.success])
                        ELSE submitted_requests
       IN  /\ Len(submitted) <= MaxSubmissions
           /\ submitted_requests' = submitted
           /\ swap_call' =
                  [called |-> TRUE, faults |-> input.faults, quote |-> input.quote,
                   response |-> input.response, raised |-> r.raised,
                   success |-> r.success, signature |-> r.signature,
                   error_message |-> r.error_message,
                   input_amount_processed |-> r.input_amount_processed,
                   output_amount_processed |-> r.output_amount_processed,
                   events |-> r.events,
                   session |-> JupiterSession(input.session_supplied,
                                              Posted(r.events))]
    /\ UNCHANGED <<allowance, trade_call, worker, iteration, last_call, saved_state,
                   fetch_call, solana_config, load_calls>>
    /\ UNCHANGED ledger_vars

SwapAny == \E input \in JupiterInputs : CallExecuteJupiterSwap(input)

NextSolana == SwapAny

SpecSolana == Init /\ [][NextSolana]_vars

(***************************************************************************)
(* The HTTP and configuration helpers of solana_utils: quotes, swaps over  *)
(* one quote and one blockhash, and the cached configuration, whose file   *)
(* stays the same for the whole run.                                       *)
(***************************************************************************)
CallFetchJupiterQuote(session_supplied, faults) ==
    /\ LET r == FetchJupiterQuote(session_supplied, faults)
       IN  fetch_call' = [called |-> TRUE, faults |-> faults,
                          returned |-> r.returned, quote |-> r.quote,
                          session |-> r.session]
    /\ UNCHANGED <<allowance, trade_call, swap_call, submitted_requests, worker,
                   iteration, last_call, saved_state, solana_config, load_calls>>
    /\ UNCHANGED ledger_vars

\* A call of _load_solana_config from outside the module (lines 342 and 362,
\* test_solana_utils.py line 30).
CallLoadSolanaConfig(file) ==
    /\ load_calls.file \in {None, file}
    /\ Len(load_calls.results) < MaxLoads
    /\ LET r == LoadSolanaConfig(solana_config, file)
       IN  /\ solana_config' = r.config
           /\ load_calls' = [load_calls EXCEPT !.file = file,
                                 !.results = Append(@, r.result)]
    /\ UNCHANGED <<allowance, trade_call, swap_call, submitted_requests, worker,
                   iteration, last_call, saved_state, fetch_call>>
    /\ UNCHANGED ledger_vars

\* get_solana_rpc_url("devnet") (lines 127-142): loads the configuration when
\* the flag is not set, then reads the URL from the cache.
CallGetSolanaRpcUrl(file) ==
    /\ load_calls.file \in {None, file}
    /\ Len(load_calls.results) < MaxLoads
    /\ LET r == LoadSolanaConfig(solana_config, file)
           loaded == ~solana_config.loaded_flag
           config == IF loaded THEN r.config ELSE solana_config
       IN  /\ solana_config' = config
           /\ load_calls' = [file |-> file,
                             results |-> IF loaded
                                         THEN Append(load_calls.results, r.result)
                                         ELSE load_calls.results,
                             rpc_url |-> config.solana_rpc_url_devnet]
    /\ UNCHANGED <<allowance, trade_call, swap_call, submitted_requests, worker,
                   iteration, last_call, saved_state, fetch_call>>
    /\ UNCHANGED ledger_vars

NextJupiter ==
    \/ \E session_supplied \in BOOLEAN,
          faults \in {{}, {"http_error"}, {"no_transaction"}, {"bad_amount"}} :
           CallFetchJupiterQuote(session_supplied, faults)
    \/ \E input \in JupiterInputs :
           /\ input.quote = [request_id |-> "r1", transaction_b64 |-> "AQAB"]
           /\ input.blockhash = "bh1"
           /\ CallExecuteJupiterSwap(input)
    \/ \E file \in {"valid", "missing", "invalid_json", "not_object"} :
           CallLoadSolanaConfig(file) \/ CallGetSolanaRpcUrl(file)

SpecJupiter == Init /\ [][NextJupiter]_vars

(***************************************************************************)
(* The batch with its two threads: the orchestrator task on the event loop *)
(* and the thread asyncio.to_thread starts for execute_trade.  An on-chain *)
(* iteration is three steps: the orchestrator up to the await (lines       *)
(* 570-597), the worker running execute_trade, and the orchestrator from   *)
(* the await on (lines 597-618).                                           *)
(***************************************************************************)
\* What connect_to_network finds: the entries config.json holds for the
\* network and the answers of the RPC endpoint.
Endpoint(configured, is_connected, raises, chain_id) ==
    [configured |-> configured, expected_chain_id |-> 11155111,
     is_connected |-> is_connected, raises |-> raises, chain_id |-> chain_id]

Endpoints ==
    {Endpoint({"rpc_urls", "chain_ids"}, TRUE, FALSE, 11155111),
     Endpoint({"rpc_urls", "chain_ids"}, TRUE, FALSE, 1),
     Endpoint({"rpc_urls", "chain_ids"}, FALSE, FALSE, 11155111),
     Endpoint({"rpc_urls", "chain_ids"}, TRUE, TRUE, 11155111),
     Endpoint({"chain_ids"}, TRUE, FALSE, 11155111),
     Endpoint({"rpc_urls"}, TRUE, FALSE, 11155111)}

\* connect_to_network, lines 101-131: whether it returns a Web3 instance.
ConnectsOk(endpoint) ==
    /\ "rpc_urls" \in endpoint.configured
    /\ "chain_ids" \in endpoint.configured
    /\ ~endpoint.raises
    /\ endpoint.is_connected
    /\ endpoint.chain_id = endpoint.expected_chain_id

\* A thread that wrote its outcome to the ledger itself.
ExecuteTradeMarks(pt, tx_id, res) ==
    IF res.raised THEN pt
    ELSE MarkTransactionProcessed(
             pt, tx_id,
             IF res.trade_success THEN "executed_onchain_success"
             ELSE "failed_onchain_execution",
             res.tx_hash, IF res.trade_success THEN None ELSE res.message)

\* The ledger as execute_trade leaves it: the function is handed the session,
\* the wallet and the trade's fields, and no reference to the ledger.
ExecuteTradeLedger(pt, tx_id, res) == pt

\* Lines 570-597: the orchestrator acquires the session and hands the trade
\* to a worker thread, or records the failure to acquire one.
DispatchTrade(endpoint, key_ok) ==
    /\ pc = "batch"
    /\ batch_pos <= Len(approved_tx_wrappers)
    /\ LET i == approved_tx_wrappers[batch_pos]
           tx_data == pending_transactions[i].transaction
           tx_id == pending_transactions[i].id
           s == AcquireSession(tx_data.network_name, ConnectsOk(endpoint), key_ok)
       IN  /\ "simulated" \notin DOMAIN tx_data
           /\ iteration' =
                  [pos |-> i, network |-> tx_data.network_name,
                   cached |-> /\ tx_data.network_name = active_network_name
                              /\ active_web3_instance.connected
                              /\ active_wallet_account.loaded,
                   got |-> s.got, calls |-> s.calls]
           /\ active_web3_instance' = s.web3
           /\ active_wallet_account' = s.wallet
           /\ active_network_name' = s.network
           /\ last_error' = None
           /\ IF s.got # "session"
              THEN /\ pending_transactions' =
                          MarkTransactionProcessed(pending_transactions, tx_id,
                                                   s.got, None, s.error)
                   /\ batch_pos' = batch_pos + 1
                   /\ UNCHANGED <<pc, worker, exec_count>>
              ELSE /\ pc' = "awaiting"
                   /\ worker' = [NoWorker EXCEPT !.state = "running", !.pos = i,
                                                 !.tx_id = tx_id, !.web3 = s.web3,
                                                 !.wallet = s.wallet]
                   /\ exec_count' = Bump(exec_count, i)
                   /\ UNCHANGED <<pending_transactions, batch_pos>>
    /\ UNCHANGED <<required_signatures, now, fund_vars, rpc_urls_configured,
                   approved_tx_wrappers, chain_vars, last_call, saved_state>>

\* The worker thread runs execute_trade to its end.
WorkerRun(outcome) ==
    /\ worker.state = "running"
    /\ LET res == ExecuteTrade(worker.web3, worker.wallet, outcome)
       IN  /\ worker' = [worker EXCEPT !.state = "done", !.result = res,
                                       !.calls = {"execute_trade"}]
           /\ pending_transactions' =
                  ExecuteTradeLedger(pending_transactions, worker.tx_id, res)
    /\ UNCHANGED <<required_signatures, now, fund_vars, rpc_urls_configured,
                   batch_vars, exec_count, last_error, chain_vars, iteration,
                   last_call, saved_state>>

\* Lines 597-618: the await returns the worker's result, or raises what
\* execute_trade raised.
ResumeTrade ==
    /\ pc = "awaiting"
    /\ worker.state = "done"
    /\ worker' = [worker EXCEPT !.state = "idle"]
    /\ LET res == worker.result
           tx_data == pending_transactions[worker.pos].transaction
       IN  IF res.raised
           THEN /\ pc' = "idle"
                /\ approved_tx_wrappers' = <<>>
                /\ batch_pos' = 0
                /\ active_web3_instance' = NoWeb3
                /\ active_wallet_account' = NoWallet
                /\ active_network_name' = None
                /\ last_error' = "Exception"
                /\ UNCHANGED <<pending_transactions, holdings>>
           ELSE /\ pending_transactions' =
                       MarkTransactionProcessed(
                           pending_transactions, worker.tx_id,
                           IF res.trade_success THEN "executed_onchain_success"
                           ELSE "failed_onchain_execution",
                           res.tx_hash,
                           IF res.trade_success THEN None ELSE res.message)
                /\ holdings' =
                       IF res.trade_success
                       THEN UpdateHolding(holdings, tx_data.input_token,
                                          -tx_data.input_amount)
                       ELSE holdings
                /\ pc' = "batch"
                /\ batch_pos' = batch_pos + 1
                /\ last_error' = None
                /\ UNCHANGED <<approved_tx_wrappers, active_web3_instance,
                               active_wallet_account, active_network_name>>
    /\ UNCHANGED <<required_signatures, now, simulated_fund_usd, context,
                   rpc_urls_configured, exec_count, chain_vars, iteration,
                   last_call, saved_state>>

\* The orchestrator task is cancelled while it awaits the worker (Ctrl+C,
\* lines 1027-1032): CancelledError leaves execute_approved_transactions and
\* the program winds down; the thread cannot be cancelled and runs on.
CancelBatch ==
    /\ pc = "awaiting"
    /\ pc' = "cancelled"
    /\ approved_tx_wrappers' = <<>>
    /\ batch_pos' = 0
    /\ active_web3_instance' = NoWeb3
    /\ active_wallet_account' = NoWallet
    /\ active_network_name' = None
    /\ last_error' = "CancelledError"
    /\ UNCHANGED <<pending_transactions, required_signatures, now, fund_vars,
                   rpc_urls_configured, exec_count, exec_vars>>

\* propose_trade (lines 468-509) for two on-chain trades, one per network.
ProposeOnChain ==
    \E parts \in {<<"weth", "usdc", "2e-12", "Sepolia", "Uniswap_V2">>,
                  <<"weth", "usdc", "2e-12", "POLYGON", "uniswap_v2">>},
       r \in RandSuffixes :
        ProposeTrade(parts, r, MaxProposals)

\* A voting round in which every agent approves.
VoteApprove ==
    \E generated \in [PendingPositions -> [AgentNames -> {Said(APPROVE)}]] :
        VoteOnTransactions(generated)

NextThreads ==
    \/ ProposeOnChain
    \/ VoteApprove
    \/ BatchStart
    \/ \E endpoint \in Endpoints, key_ok \in BOOLEAN : DispatchTrade(endpoint, key_ok)
    \/ \E outcome \in ExecOutcomes : WorkerRun(outcome)
    \/ ResumeTrade
    \/ CancelBatch
    \/ BatchEnd

SpecThreads == Init /\ [][NextThreads]_vars

(***************************************************************************)
(* Simulated BUY/SELL proposals through propose_trade, voting rounds that  *)
(* approve them, and execution batches.                                    *)
(***************************************************************************)
ProposeSimulated ==
    \E act \in {"buy", "Sell"}, amt \in {"2e-12", "1.5e-12", "-2e-12"},
       r \in RandSuffixes :
        ProposeTrade(<<act, amt, "btc">>, r, MaxProposals)

NextSimulated == ProposeSimulated \/ VoteApprove \/ BatchStart \/ Step \/ BatchEnd

SpecSimulated == Init /\ [][NextSimulated]_vars

(***************************************************************************)
(* AgentGroup: construction, pruning, and the state file.                  *)
(***************************************************************************)
\* Line 294: max(1, min(num_agents, evm_config.get(
\* "multisig_required_signatures", (num_agents // 2) + 1))).
RequiredSignatures(num_agents, configured) ==
    LET wanted == IF configured.present THEN configured.value
                  ELSE (num_agents \div 2) + 1
        capped == IF wanted < num_agents THEN wanted ELSE num_agents
    IN  IF capped > 1 THEN capped ELSE 1

\* AgentGroup.__init__ up to line 295.  When it reaches line 294 it has
\* assigned agents, portfolio, simulated_fund_usd and context (lines 278-290);
\* evm_config is assigned at line 303, and reading an attribute that is not
\* assigned yet raises AttributeError.
ConstructAgentGroup(num_agents, configured) ==
    LET assigned == {"agents", "portfolio", "simulated_fund_usd", "context"}
    IN  IF "evm_config" \in assigned
        THEN [raised |-> FALSE,
              required_signatures |-> RequiredSignatures(num_agents, configured)]
        ELSE [raised |-> TRUE, required_signatures |-> 0]

\* AgentGroup(agents, ...) at the start of main, line 984, for each value
\* config.json can hold for multisig_required_signatures.
Construct ==
    /\ pc = "idle"
    /\ last_call = NoCall
    /\ pending_transactions = <<>>
    /\ \E num_agents \in 1..NumAgents,
          configured \in {NoAmount} \cup {[present |-> TRUE, value |-> v] :
                                             v \in 0..(NumAgents + 1)} :
           LET r == ConstructAgentGroup(num_agents, configured)
           IN  last_call' = [NoCall EXCEPT !.op = "AgentGroup",
                                           !.num_agents = num_agents,
                                           !.configured = configured,
                                           !.raised = r.raised,
                                           !.required_signatures =
                                               r.required_signatures]
    /\ UNCHANGED <<ledger_vars, chain_vars, worker, iteration, saved_state>>

\* MultisigWallet.clear_finalized_transactions, lines 260-265: its body is
\* pass (the filter is a comment), so the call changes nothing.
ClearFinalizedTransactions ==
    /\ pc = "idle"
    /\ last_call' = [NoCall EXCEPT !.op = "clear_finalized_transactions"]
    /\ UNCHANGED <<ledger_vars, chain_vars, worker, iteration, saved_state>>

\* json.dump of a transaction dict: a JSON object whose members are strings,
\* numbers (the amounts) and true (the simulated flag).
JsonDumpTransaction(tx) ==
    [k \in DOMAIN tx |->
        CASE k \in {"input_amount", "amount"} -> <<"number", tx[k]>>
          [] k = "simulated" -> <<IF tx[k] THEN "true" ELSE "false">>
          [] OTHER -> <<"string", tx[k]>>]

\* A dump that writes the four members propose_transaction creates.
JsonDumpProposalAsProposed(p) ==
    [id |-> <<"string", p.id>>,
     transaction |-> <<"object", JsonDumpTransaction(p.transaction)>>,
     votes |-> <<"array", [j \in 1..Len(p.votes) |->
                   <<"object", [agent |-> <<"string", p.votes[j].agent>>,
                                vote |-> <<"string", p.votes[j].vote>>]>>]>>,
     status |-> <<"string", p.status>>]

\* json.dump of a proposal: the members the dict has, tx_hash and
\* error_message only when mark_transaction_processed has set them.
JsonDumpProposal(p) ==
    LET proposed == [id |-> <<"string", p.id>>,
                     transaction |-> <<"object", JsonDumpTransaction(p.transaction)>>,
                     votes |-> <<"array", [j \in 1..Len(p.votes) |->
                         <<"object", [agent |-> <<"string", p.votes[j].agent>>,
                                      vote |-> <<"string", p.votes[j].vote>>]>>]>>,
                     status |-> <<"string", p.status>>]
        hash == IF p.tx_hash # None
                THEN [k \in {"tx_hash"} |-> <<"string", p.tx_hash>>]
                ELSE [k \in {} |-> <<"null">>]
        error == IF p.error_message # None
                 THEN [k \in {"error_message"} |-> <<"string", p.error_message>>]
                 ELSE [k \in {} |-> <<"null">>]
    IN  proposed @@ hash @@ error

\* json.load of a proposal: each JSON value becomes the Python value of its
\* kind; a member the object lacks is a key the dict lacks.
JsonLoadProposal(o) ==
    [id |-> o.id[2],
     transaction |->
         [k \in DOMAIN o.transaction[2] |->
             LET v == o.transaction[2][k]
             IN  IF v[1] = "true" THEN TRUE
                 ELSE IF v[1] = "false" THEN FALSE
                 ELSE v[2]],
     votes |-> [j \in DOMAIN o.votes[2] |->
                   [agent |-> o.votes[2][j][2].agent[2],
                    vote |-> o.votes[2][j][2].vote[2]]],
     status |-> o.status[2],
     tx_hash |-> IF "tx_hash" \in DOMAIN o THEN o.tx_hash[2] ELSE None,
     error_message |->
         IF "error_message" \in DOMAIN o THEN o.error_message[2] ELSE None]

\* AgentGroup.save_state, lines 310-325.  current_day and discussion_log are
\* not part of the model; context is refreshed by load_state.
SaveState ==
    /\ pc = "idle"
    /\ saved_state' =
           [exists |-> TRUE,
            pending_transactions |->
                [k \in 1..Len(pending_transactions) |->
                    JsonDumpProposal(pending_transactions[k])],
            portfolio_holdings |-> holdings,
            simulated_fund_usd |-> simulated_fund_usd]
    /\ last_call' = [NoCall EXCEPT !.op = "save_state",
                                   !.pending_transactions = pending_transactions]
    /\ UNCHANGED <<ledger_vars, chain_vars, worker, iteration>>

\* AgentGroup.load_state, lines 328-350.
LoadState ==
    /\ pc = "idle"
    /\ last_call' = [NoCall EXCEPT !.op = "load_state"]
    /\ IF saved_state.exists
       THEN /\ pending_transactions' =
                   [k \in DOMAIN saved_state.pending_transactions |->
                       JsonLoadProposal(saved_state.pending_transactions[k])]
            /\ holdings' = saved_state.portfolio_holdings
            /\ simulated_fund_usd' = saved_state.simulated_fund_usd
            /\ context' = [portfolio_summary |-> holdings',
                           simulated_fund_usd |-> simulated_fund_usd']
            /\ exec_count' = [k \in 1..Len(pending_transactions') |-> 0]
       ELSE UNCHANGED <<pending_transactions, fund_vars, exec_count>>
    /\ UNCHANGED <<required_signatures, now, rpc_urls_configured, batch_vars,
                   last_error, chain_vars, worker, iteration, saved_state>>

\* Lines 605-618: the outcome of an on-chain trade is marked, a success with
\* its hash, a failure with its hash and message.
MarkOutcome ==
    \E tx_id \in KnownIds, trade_success \in BOOLEAN :
        MarkProcessedCall(tx_id,
                          IF trade_success THEN "executed_onchain_success"
                          ELSE "failed_onchain_execution",
                          "0xswap",
                          IF trade_success THEN None ELSE "late error")

\* Proposals, voting rounds and outcomes, with the state file written and
\* read in between.
NextPersist ==
    \/ Construct
    \/ ProposeOnChain
    \/ VoteApprove
    \/ MarkOutcome
    \/ ClearFinalizedTransactions
    \/ SaveState
    \/ LoadState

SpecPersist == Init /\ [][NextPersist]_vars

(***************************************************************************)
(* Properties.                                                             *)
(***************************************************************************)
Positions == 1..Len(pending_transactions)

\* C1: an executor (execute_trade or the simulated BUY/SELL branch) is invoked
\* only for a proposal whose status is 'approved' and whose votes hold at
\* least required_signatures APPROVE votes; a pending or rejected proposal is
\* never executed.
ExecutedOnlyWhenApproved ==
    [][\A i \in Positions :
          exec_count'[i] > exec_count[i]
          => /\ pending_transactions[i].status = "approved"
             /\ Approvals(pending_transactions[i].votes) >= required_signatures]_vars

\* C1 witness: one proposal was rejected and never executed while another one,
\* approved, was handed to an executor.
ExecutedBesideRejected ==
    \E i, j \in Positions :
        /\ exec_count[i] >= 1
        /\ pending_transactions[j].status = "rejected"
        /\ exec_count[j] = 0

\* The status graph of C2.
AllowedTransition(old, new) ==
    \/ new = old
    \/ old = "pending" /\ new \in {"approved", "rejected"}
    \/ old = "approved" /\ new \in TerminalStatuses

\* C2: every proposal's status only moves along pending -> {approved |
\* rejected} and approved -> terminal; a rejected proposal never changes
\* status again and a terminal status is never replaced.
StatusFollowsGraph ==
    [][\A i \in Positions :
          AllowedTransition(pending_transactions[i].status,
                            pending_transactions'[i].status)]_vars

\* The votes of a proposal decide for 'approved' / for 'rejected' (C3).
VotesApprove(votes) == Approvals(votes) >= required_signatures
VotesReject(votes) ==
    /\ Approvals(votes) < required_signatures
    /\ \/ Rejects(votes) > NumAgents - required_signatures
       \/ Len(votes) = NumAgents

\* A voting round ran to its end and touched the ledger.
RoundCompleted ==
    /\ Len(pending_transactions') = Len(pending_transactions)
    /\ pending_transactions' # pending_transactions
    /\ last_error' = None

VotersOf(votes) == {votes[k].agent : k \in 1..Len(votes)}

\* C4: every proposal holds at most one vote per participant, a recorded vote
\* stands when its participant is not asked again, and the number of votes
\* never exceeds the number of participants.
OneVotePerParticipant ==
    [][\A i \in Positions :
          LET before == pending_transactions[i].votes
              after == pending_transactions'[i].votes
          IN  /\ Len(after) <= NumAgents
              /\ Cardinality(VotersOf(after)) = Len(after)
              /\ Len(after) >= Len(before)
              /\ SubSeq(after, 1, Len(before)) = before]_vars

\* C4 witness: the round that recorded the first participant's vote broke
\* off, and a later round collected the other votes without asking the first
\* participant again.
CompletedAfterBrokenRound ==
    \E i \in Positions :
        LET votes == pending_transactions[i].votes
        IN  /\ Len(votes) = NumAgents
            /\ votes[1].vote = <<>>
            /\ pending_transactions[i].status # "pending"

\* C5: each approved proposal is handed to an executor at most once over the
\* whole run, also when a batch was cut short and a later batch follows.
ExecutedAtMostOnce == \A i \in Positions : exec_count[i] <= 1

\* C6: when a batch ends, every proposal that was approved when it started has
\* a terminal status, and every on-chain proposal among them has its hash or
\* its error text recorded.
BatchSettlesEveryProposal ==
    [][(pc = "batch" /\ pc' = "idle" /\ last_error' = None)
          => \A k \in 1..Len(approved_tx_wrappers) :
                LET after == pending_transactions'[approved_tx_wrappers[k]]
                IN  /\ after.status \in TerminalStatuses
                    /\ "simulated" \notin DOMAIN after.transaction
                       => after.tx_hash # None \/ after.error_message # None]_vars

\* C7: mark_transaction_processed called for a proposal that already has a
\* terminal status leaves status, tx_hash and error_message as they were and
\* signals an error.
SecondMarkRejected ==
    [][\A tx_id \in KnownIds, final_status \in MarkStatuses,
          tx_hash \in MarkHashes, error_message \in MarkErrors :
          (/\ MarkProcessedCall(tx_id, final_status, tx_hash, error_message)
           /\ \E i \in Positions :
                 /\ pending_transactions[i].id = tx_id
                 /\ pending_transactions[i].status \in TerminalStatuses)
          => /\ pending_transactions' = pending_transactions
             /\ last_error' # None]_vars

\* C8: all proposals in the ledger have pairwise distinct ids.
IdsDistinct ==
    \A i, j \in Positions :
        i # j => pending_transactions[i].id # pending_transactions[j].id

\* The risk data of C9: the output assets the risk summary flags (honeypot,
\* excessive tax or a critical warning), and the safe-asset allow-list.
RiskFlagged == {"HONEY"}
SafeOutputTokens == {"USDC"}

\* C9: a trade whose output asset is risk-flagged and not on the allow-list
\* is never appended to the ledger.
RiskyTradeNeverProposed ==
    \A i \in Positions :
        LET tx == pending_transactions[i].transaction
        IN  "output_token" \in DOMAIN tx
            => ~(tx.output_token \in RiskFlagged /\ tx.output_token \notin SafeOutputTokens)

\* The malformed trade strings of C10.
Malformed(parts) ==
    IF Len(parts) = 5 THEN ~ParseFloat(parts[3]).ok \/ ParseFloat(parts[3]).value <= 0
    ELSE IF Len(parts) = 3 /\ TokenUpper(parts[1]) \in {"BUY", "SELL"}
    THEN ~ParseFloat(parts[2]).ok \/ ParseFloat(parts[2]).value <= 0
    ELSE TRUE

\* C10: propose_trade leaves the ledger unchanged and does not raise whenever
\* the trade string is malformed: a wrong token count, an amount that cannot
\* be parsed, or an amount that is not strictly positive, in either form.
MalformedNeverProposed ==
    [][\A parts \in TradeStrings, r \in RandSuffixes :
          (Malformed(parts) /\ ProposeTrade(parts, r, MaxProposals))
          => /\ pending_transactions' = pending_transactions
             /\ last_error' = None]_vars

(***************************************************************************)
(* The executors.                                                          *)
(***************************************************************************)
EvHas(events, step) == \E i \in 1..Len(events) : events[i].step = step

\* C11: execute_trade never raises: whatever step fails (configuration,
\* address conversion, decimals, quote, approval, gas price or nonce read,
\* build, gas estimate, signing, submission, receipt), the call returns a
\* result whose success flag is False.
TradeFailureReturned ==
    trade_call.called => ~trade_call.raised

\* C12: execute_jupiter_swap never raises: when the blockhash request fails
\* or returns no value, when decoding or signing fails, and on an HTTP error
\* or an unparsable response, the call returns a result with success False
\* and an error message.
SwapFailureReturned ==
    swap_call.called
    => /\ ~swap_call.raised
       /\ swap_call.faults # {}
          => ~swap_call.success /\ swap_call.error_message # None

SlippagePercent == 1    \* slippage_tolerance = 0.01 as a percentage

\* m = floor(q * (100 - SlippagePercent) / 100), in exact integers.
MinOutExact(q, m) ==
    LET scaled == Mul(q, FromNat(100 - SlippagePercent))
        hundred_m == Mul(m, FromNat(100))
    IN  ~Less(scaled, hundred_m) /\ Less(scaled, Add(hundred_m, FromNat(100)))

\* C13: the minimum output a swap is sent with is the floor of the quoted
\* output times (1 - slippage_tolerance), and when the quote fails or that
\* minimum is 0 the call fails without broadcasting an approve or a swap.
MinOutIsFloor ==
    trade_call.called
    => /\ \A i \in 1..Len(trade_call.events) :
              trade_call.events[i].step = "swap_send"
              => MinOutExact(trade_call.estimated_out_wei,
                             trade_call.events[i].min_out)
       /\ (\/ "quote_call" \in trade_call.faults
           \/ Less(Mul(trade_call.estimated_out_wei,
                       FromNat(100 - SlippagePercent)), FromNat(100)))
          => /\ ~trade_call.trade_success
             /\ ~EvHas(trade_call.events, "approve_send")
             /\ ~EvHas(trade_call.events, "swap_send")

\* Position of the first event of a step in a call's history, 0 if none.
EvPos(events, step) ==
    IF EvHas(events, step)
    THEN CHOOSE i \in 1..Len(events) :
             /\ events[i].step = step
             /\ \A j \in 1..(i - 1) : events[j].step # step
    ELSE 0

\* C14: with an ERC20 input the swap is broadcast only after the allowance
\* read showed at least the requested amount, or after an approve was
\* submitted and its receipt had status 1; an allowance that already covers
\* the amount means no approve is submitted, and a failed approval means no
\* swap is broadcast.
SwapAfterApproval ==
    (trade_call.called /\ ~trade_call.is_input_native)
    => LET ev == trade_call.events
           covered == trade_call.allowance_before >= trade_call.amount_in_wei
       IN  /\ EvHas(ev, "swap_send")
              => \/ /\ covered
                    /\ EvHas(ev, "allowance_sufficient")
                    /\ EvPos(ev, "allowance_sufficient") < EvPos(ev, "swap_send")
                 \/ /\ EvHas(ev, "approve_send") /\ EvHas(ev, "approve_receipt_ok")
                    /\ EvPos(ev, "approve_send") < EvPos(ev, "approve_receipt_ok")
                    /\ EvPos(ev, "approve_receipt_ok") < EvPos(ev, "swap_send")
           /\ covered => ~EvHas(ev, "approve_send")
           /\ (\/ EvHas(ev, "allowance_read_failed")
               \/ EvHas(ev, "allowance_insufficient")
                  /\ ~EvHas(ev, "approve_receipt_ok"))
              => ~EvHas(ev, "swap_send") /\ ~trade_call.trade_success

\* An approve was submitted and confirmed, and the swap was broadcast.
SwapSentAfterApprove ==
    /\ trade_call.called /\ ~trade_call.is_input_native
    /\ EvHas(trade_call.events, "approve_receipt_ok")
    /\ EvHas(trade_call.events, "swap_send")

\* C15: when the gas estimate of the approve or of the swap transaction
\* fails, the call ends in a failure and that transaction is neither signed
\* nor broadcast.
GasEstimateFailureAborts ==
    trade_call.called
    => LET ev == trade_call.events
       IN  /\ EvHas(ev, "approve_estimate_failed")
              => /\ ~trade_call.trade_success
                 /\ ~EvHas(ev, "approve_sign") /\ ~EvHas(ev, "approve_send")
           /\ EvHas(ev, "swap_estimate_failed")
              => /\ ~trade_call.trade_success
                 /\ ~EvHas(ev, "swap_sign") /\ ~EvHas(ev, "swap_send")

\* C16: once an approve or a swap transaction has been broadcast and its
\* receipt has status 0 or the wait for it raises, the failure result carries
\* the hash of that transaction; the result is a success only when the swap
\* receipt has status 1.
BroadcastHashReported ==
    (trade_call.called /\ ~trade_call.raised)
    => LET ev == trade_call.events
       IN  /\ (EvHas(ev, "approve_receipt_reverted")
               \/ EvHas(ev, "approve_receipt_timeout"))
              => ~trade_call.trade_success /\ trade_call.tx_hash = ApproveHash
           /\ (EvHas(ev, "swap_receipt_reverted")
               \/ EvHas(ev, "swap_receipt_timeout"))
              => ~trade_call.trade_success /\ trade_call.tx_hash = SwapHash
           /\ trade_call.trade_success => EvHas(ev, "swap_receipt_ok")

\* C17: a quote whose transaction blob is empty or missing makes
\* execute_jupiter_swap return success False with the 'no transaction' error,
\* without a blockhash request and without an execute request.
NoBlobNoRequests ==
    (swap_call.called /\ ~Truthy(swap_call.quote.transaction_b64))
    => /\ ~swap_call.raised
       /\ ~swap_call.success
       /\ swap_call.error_message = "No transaction string in quote."
       /\ swap_call.events = <<>>

\* A call with an empty blob has returned.
EmptyBlobRefused ==
    /\ swap_call.called
    /\ swap_call.quote.transaction_b64 = ""
    /\ ~swap_call.success
    /\ swap_call.events = <<>>

BlockhashBeforeSigning ==
    swap_call.called
    => LET ev == swap_call.events
           req == EvPos(ev, "blockhash_request")
           sig == EvPos(ev, "sign")
           post == EvPos(ev, "execute_post")
       IN  /\ EvHas(ev, "sign")
              => /\ EvHas(ev, "blockhash_request") /\ req < sig
                 /\ ev[req].blockhash # None
                 /\ ev[sig].blockhash = ev[req].blockhash
           /\ EvHas(ev, "execute_post")
              => EvHas(ev, "sign") /\ sig < post /\ "sign" \notin swap_call.faults
           /\ swap_call.faults \cap {"blockhash_raises", "blockhash_empty"} # {}
              => ~EvHas(ev, "sign") /\ ~EvHas(ev, "execute_post")

\* A call signed with the blockhash it fetched and posted the transaction.
SignedWithFetchedBlockhash ==
    /\ swap_call.called
    /\ EvHas(swap_call.events, "execute_post")
    /\ swap_call.events[EvPos(swap_call.events, "sign")].blockhash = "bh2"

\* C20: a quote is consumed by at most one submission: after a submission
\* that succeeded, no later call posts the same request id again.
QuoteSubmittedOnce ==
    \A i, j \in 1..Len(submitted_requests) :
        (i < j /\ submitted_requests[i].request_id = submitted_requests[j].request_id)
        => ~submitted_requests[i].success

\* The steps of approve_token in a call's history.
ApprovalSteps ==
    {"allowance_read_failed", "allowance_sufficient", "allowance_insufficient",
     "approve_estimate_failed", "approve_estimated", "approve_sign",
     "approve_send", "approve_receipt_timeout", "approve_receipt_reverted",
     "approve_receipt_ok"}

\* The steps of the swap transaction, in the order the claim gives them.
SwapStepRank ==
    [s \in {"swap_estimate_failed", "swap_estimated", "swap_sign", "swap_send",
            "swap_receipt_timeout", "swap_receipt_reverted", "swap_receipt_ok"} |->
        CASE s \in {"swap_estimate_failed", "swap_estimated"} -> 1
          [] s = "swap_sign" -> 2
          [] s = "swap_send" -> 3
          [] OTHER -> 4]

\* C30: for an ERC20 input execute_trade approves, then quotes the expected
\* output, then estimates gas, signs, submits and awaits the receipt of the
\* swap: the quote is taken after the approval step has completed.
QuoteAfterApproval ==
    (trade_call.called /\ ~trade_call.is_input_native)
    => LET ev == trade_call.events
       IN  \A i, j \in 1..Len(ev) :
               /\ (ev[i].step \in ApprovalSteps
                   /\ ev[j].step \in {"quote", "quote_failed"})
                  => i < j
               /\ (ev[i].step \in {"quote", "quote_failed"}
                   /\ ev[j].step \in DOMAIN SwapStepRank)
                  => i < j
               /\ (/\ ev[i].step \in DOMAIN SwapStepRank
                   /\ ev[j].step \in DOMAIN SwapStepRank
                   /\ SwapStepRank[ev[i].step] < SwapStepRank[ev[j].step])
                  => i < j

\* C29: every result execute_jupiter_swap returns is consistent: with success
\* False both processed amounts are absent and an error message is present,
\* with success True the error message is absent; processed amounts are
\* present on success only.
SwapResultConsistent ==
    (swap_call.called /\ ~swap_call.raised)
    => /\ ~swap_call.success
          => /\ ~swap_call.input_amount_processed.present
             /\ ~swap_call.output_amount_processed.present
             /\ swap_call.error_message # None
       /\ swap_call.success => swap_call.error_message = None

\* The endpoint reported amounts beside a failure status, and the result
\* carries none.
FailedWithoutAmounts ==
    /\ swap_call.called /\ ~swap_call.raised /\ Posted(swap_call.events)
    /\ swap_call.response.status = "Failed"
    /\ swap_call.response.inputAmountResult = "1000"
    /\ ~swap_call.success
    /\ ~swap_call.input_amount_processed.present

\* A success carries the processed amounts as integers.
SucceededWithAmounts ==
    /\ swap_call.called /\ swap_call.success
    /\ swap_call.input_amount_processed = [present |-> TRUE, value |-> 1000]
    /\ swap_call.output_amount_processed = [present |-> TRUE, value |-> 990]

(***************************************************************************)
(* The batch and its threads.                                              *)
(***************************************************************************)
\* C21: within a batch the approved trades are handled in ledger order and
\* one at a time, and connect_to_network / load_wallet are called for a
\* proposal only when its network is not the cached session's or no complete
\* session is cached; otherwise the trade runs on the cached connection and
\* wallet.
SessionReusedInOrder ==
    [][\A endpoint \in Endpoints, key_ok \in BOOLEAN :
          DispatchTrade(endpoint, key_ok)
          => LET i == approved_tx_wrappers[batch_pos]
                 cached ==
                     /\ pending_transactions[i].transaction.network_name
                            = active_network_name
                     /\ active_web3_instance.connected
                     /\ active_wallet_account.loaded
             IN  /\ iteration'.pos = i
                 /\ \A k \in 1..Len(approved_tx_wrappers) :
                        (k < batch_pos <=> approved_tx_wrappers[k] < i)
                 /\ worker.state # "running"
                 /\ iteration'.calls # {} => ~cached
                 /\ cached => /\ worker'.state = "running"
                              /\ worker'.web3 = active_web3_instance
                              /\ worker'.wallet = active_wallet_account
                              /\ active_web3_instance' = active_web3_instance
                              /\ active_wallet_account' = active_wallet_account]_vars

\* The second of two trades on one network runs on the session the first
\* one opened.
SecondTradeOnCachedSession ==
    /\ pc = "awaiting"
    /\ worker.state = "running"
    /\ iteration.pos = worker.pos
    /\ iteration.cached
    /\ iteration.calls = {}
    /\ \E k \in 1..(worker.pos - 1) :
           pending_transactions[k].status = "executed_onchain_success"

\* C22: when execute_approved_transactions has been left, normally or by an
\* exception or a cancellation, no session acquired in the batch is held any
\* more, neither by the orchestrator nor by a thread still running a trade.
SessionsReleasedOnExit ==
    pc \in {"idle", "cancelled"}
    => /\ active_web3_instance = NoWeb3
       /\ active_wallet_account = NoWallet
       /\ active_network_name = None
       /\ worker.state # "running"

\* C23: when connect_to_network returns no connection (chain id mismatch,
\* missing RPC URL or chain id, unreachable endpoint) the proposal is recorded
\* with the failure status and an error message, execute_trade is not called
\* for it, and the connection is attempted once.
ConnectFailureRecorded ==
    [][\A endpoint \in Endpoints, key_ok \in BOOLEAN :
          (/\ DispatchTrade(endpoint, key_ok)
           /\ iteration'.calls # {}
           /\ ~ConnectsOk(endpoint))
          => LET i == approved_tx_wrappers[batch_pos]
             IN  /\ pending_transactions'[i].status = "failed_network_connect"
                 /\ pending_transactions'[i].error_message # None
                 /\ iteration'.calls = {"connect_to_network"}
                 /\ worker' = worker
                 /\ exec_count' = exec_count
                 /\ batch_pos' = batch_pos + 1]_vars

\* C27: the ledger has a single writer: the thread that runs execute_trade
\* never changes the proposal list, and the outcome of a trade is written by
\* the orchestrator only after the thread has returned.
SingleLedgerWriter ==
    [][pending_transactions' # pending_transactions
       => /\ worker.state # "running"
          /\ (\E i \in 1..Len(pending_transactions) :
                  /\ pending_transactions'[i].status
                         \in {"executed_onchain_success", "failed_onchain_execution"}
                  /\ pending_transactions'[i] # pending_transactions[i])
             => /\ pc = "awaiting"
                /\ worker.state = "done"
                /\ worker'.state = "idle"]_vars

\* The orchestrator has written the outcome of a trade its thread returned.
OutcomeWrittenAfterReturn ==
    /\ pc = "batch"
    /\ worker.state = "idle"
    /\ worker.pos > 0
    /\ worker.calls = {"execute_trade"}
    /\ pending_transactions[worker.pos].status = "executed_onchain_success"
    /\ pending_transactions[worker.pos].tx_hash = worker.result.tx_hash

\* The blocking calls of the execution path.
BlockingCalls == {"connect_to_network", "load_wallet", "execute_trade"}

\* C28: during a batch every blocking network operation (connect with the
\* chain id check, wallet load, and the calls of execute_trade) runs on a
\* worker thread, none on the orchestrator's event loop thread.
BlockingCallsOffLoop ==
    /\ iteration.calls \cap BlockingCalls = {}
    /\ worker.state = "running" => pc \in {"awaiting", "cancelled"}

\* C24: constructing an AgentGroup with N >= 1 agents yields a threshold T
\* with 1 <= T <= N: the configured multisig_required_signatures clamped into
\* [1, N], and floor(N/2)+1 when none is configured.
ThresholdWithinAgents ==
    last_call.op = "AgentGroup"
    => /\ ~last_call.raised
       /\ last_call.required_signatures \in 1..last_call.num_agents
       /\ last_call.required_signatures =
              RequiredSignatures(last_call.num_agents, last_call.configured)

\* The pending and the approved proposals of a ledger, in order.
OpenProposals(pt) ==
    SelectSeq(pt, LAMBDA p : p.status \in {"pending", "approved"})

\* C25: clear_finalized_transactions removes every proposal in a terminal
\* state and keeps the pending and approved ones, in order and unchanged.
PruneRemovesTerminal ==
    [][ClearFinalizedTransactions
       => /\ \A k \in 1..Len(pending_transactions') :
                 pending_transactions'[k].status \notin TerminalStatuses
          /\ OpenProposals(pending_transactions')
                 = OpenProposals(pending_transactions)]_vars

Delivered(call) ==
    IF call.function = "swapExactTokensForETH" THEN "native"
    ELSE IF call.path_end = "WETH" THEN "wrapped_native"
    ELSE "output_token"

\* C31: execute_trade calls the native-in swap function (with the input
\* amount as value) exactly when the input is the native currency, the
\* native-out function exactly when the output is the native currency, and
\* the token-for-token function otherwise, so that a token-for-native trade
\* delivers native currency.
RouterCallByPathKind ==
    (trade_call.called /\ EvHas(trade_call.events, "swap_send"))
    => LET call == trade_call.swap_function_call
       IN  /\ (call.function = "swapExactETHForTokens") = trade_call.is_input_native
           /\ trade_call.is_input_native => call.value = "amount_in_wei"
           /\ (call.function = "swapExactTokensForETH") = trade_call.is_output_native
           /\ (call.function = "swapExactTokensForTokens")
                  = (~trade_call.is_input_native /\ ~trade_call.is_output_native)
           /\ trade_call.is_output_native => Delivered(call) = "native"

\* C32: after a voting round, whatever text each agent returns (text that
\* starts with neither APPROVE nor REJECT, or empty text, included), every
\* proposal that was pending at the start of the round holds exactly N votes
\* and is approved or rejected: the round completes, nothing stays pending.
RoundAlwaysCompletes ==
    [][\A generated \in [PendingPositions -> [AgentNames -> VoteGenerations]] :
          VoteOnTransactions(generated)
          => /\ last_error' = None
             /\ \A i \in PendingPositions :
                    /\ Len(pending_transactions'[i].votes) = NumAgents
                    /\ pending_transactions'[i].status \in {"approved", "rejected"}]_vars

\* Whether a round with these generated texts gets as far as asking agent a
\* about the proposal at position i: no agent asked before returns the empty
\* text, whose first line cannot be logged.
Reached(generated, i, a) ==
    /\ \A j \in PendingPositions : \A b \in AgentNames :
           (/\ j < i \/ (j = i /\ b < a)
            /\ b \notin VotersOf(pending_transactions[j].votes))
           => ~FirstLineRaises(VoteOnTransaction(generated[j][b]))
    /\ a \notin VotersOf(pending_transactions[i].votes)

\* C33: if an agent's vote generation fails, the vote recorded for that agent
\* starts with REJECT: it is counted as a rejection, never as an approval and
\* never as a missing vote, and the round goes on with the next agent.
FailedGenerationRejects ==
    [][\A generated \in [PendingPositions -> [AgentNames -> VoteGenerations]] :
          VoteOnTransactions(generated)
          => \A i \in PendingPositions : \A a \in AgentNames :
                 (Reached(generated, i, a) /\ generated[i][a].raised)
                 => LET after == pending_transactions'[i].votes
                        rest == {b \in AgentNames :
                                    /\ b > a
                                    /\ b \notin VotersOf(pending_transactions[i].votes)}
                    IN  /\ \E k \in 1..Len(after) :
                               /\ after[k].agent = a
                               /\ IsReject(after[k].vote)
                               /\ ~IsApprove(after[k].vote)
                        /\ Rejects(after) >= 1
                        /\ rest # {} => Min(rest) \in VotersOf(after)]_vars

\* A proposal holds the REJECT vote of an agent whose generation failed,
\* followed by the vote of the next agent.
FailedGenerationRecorded ==
    \E i \in Positions :
        LET votes == pending_transactions[i].votes
        IN  /\ Len(votes) = NumAgents
            /\ votes[1].vote = RejectOnError
            /\ votes[2].vote # RejectOnError

TxHashIsBroadcastHash ==
    (trade_call.called /\ ~trade_call.raised /\ trade_call.tx_hash # None)
    => \/ /\ trade_call.tx_hash = SwapHash
          /\ EvHas(trade_call.events, "swap_send")
       \/ /\ trade_call.tx_hash = ApproveHash
          /\ EvHas(trade_call.events, "approve_send")

\* C37: a simulated BUY of amount a goes through only if the fund is at least
\* a and lowers the fund by exactly a, a simulated SELL only if the holding
\* is at least a and lowers it by exactly a, a failed one changes neither; so
\* no simulated trade raises the fund or a holding or makes one negative.
SimulatedTradeBounded ==
    [][(/\ pc = "batch"
        /\ batch_pos <= Len(approved_tx_wrappers)
        /\ "simulated" \in DOMAIN pending_transactions[approved_tx_wrappers[batch_pos]].transaction)
       => LET tx == pending_transactions[approved_tx_wrappers[batch_pos]].transaction
              others == HoldingSymbols \ {tx.crypto}
          IN  /\ \A c \in others : holdings'[c] = holdings[c]
              /\ tx.action = "BUY"
                 => /\ holdings' = holdings
                    /\ simulated_fund_usd' \in {simulated_fund_usd,
                                                simulated_fund_usd - tx.amount}
                    /\ simulated_fund_usd' # simulated_fund_usd
                           => simulated_fund_usd >= tx.amount
              /\ tx.action = "SELL"
                 => /\ simulated_fund_usd' = simulated_fund_usd
                    /\ holdings'[tx.crypto] \in {holdings[tx.crypto],
                                                 holdings[tx.crypto] - tx.amount}
                    /\ holdings'[tx.crypto] # holdings[tx.crypto]
                           => holdings[tx.crypto] >= tx.amount
              /\ simulated_fund_usd' <= simulated_fund_usd
              /\ simulated_fund_usd' >= 0
              /\ \A c \in HoldingSymbols :
                     holdings'[c] <= holdings[c] /\ holdings'[c] >= 0]_vars

\* C38: fetch_jupiter_quote and execute_jupiter_swap never close an HTTP
\* session the caller supplied and always close a session they created
\* themselves, on every return path and every exception path.
SessionsClosedByCreator ==
    /\ fetch_call.called
       => /\ "supplied" \notin fetch_call.session.closed
          /\ fetch_call.session.created => "created" \in fetch_call.session.closed
    /\ swap_call.called
       => /\ "supplied" \notin swap_call.session.closed
          /\ swap_call.session.created => "created" \in swap_call.session.closed

\* A swap whose POST failed has closed the session it created, after a quote
\* was fetched over a session of the caller, and the other way round.
OwnSessionClosedOnFailure ==
    /\ swap_call.called
    /\ swap_call.faults = {"http_error"}
    /\ swap_call.session.created
    /\ fetch_call.called
    /\ fetch_call.session.supplied
    /\ fetch_call.faults = {"no_transaction"}

\* C39: for an unchanged configuration _load_solana_config gives the same
\* answer on every call; in particular, once the first call has returned
\* False for an unparsable file, every later call returns False as well.
LoadAnswerStable ==
    \A i, j \in 1..Len(load_calls.results) :
        load_calls.results[i] = load_calls.results[j]

TypeOK ==
    /\ Len(pending_transactions) <= MaxProposals
    /\ Len(exec_count) = Len(pending_transactions)
    /\ pc \in {"idle", "batch", "awaiting", "cancelled"}

====
